---- MODULE Spec2Model ----
(***************************************************************************)
(* Model of the news triage engine of newsie (src/news_collector.py).      *)
(* Python strings are sequences of one-character strings, so that lower(), *)
(* strip(), split() and the substring test `in` are computed, not assumed. *)
(* A field that is present with the value None is the value None below.    *)
(***************************************************************************)
EXTENDS Integers, Sequences, FiniteSets, TLC

VARIABLES
    articles,         \* remove_duplicates: the argument list
    unique_articles,  \* remove_duplicates: the returned list
    kept,             \* positions in `articles` of the returned dict objects
    unique_again,     \* remove_duplicates applied to its own output
    dedup_status,     \* "input" | "returned" | "raised" | "rerun"
    batch,            \* categorizer: the articles to label
    gemini,           \* categorizer: GEMINI_API_KEY and what requests.post does
    fallback_label,   \* categorize_article_fallback(batch[1])
    ai_label,         \* categorize_article_with_ai(batch[1])
    batch_labels,     \* categorize_articles_batch(batch)
    cat_status,       \* "idle" | "input" | "fallback" | "single" | "batch"
    now,              \* datetime.now(timezone.utc), in whole hours
    scored,           \* scorer: the article record that is evaluated
    evaluations,      \* scorer: the evaluations so far, [at, result]
    keyword_trial,    \* scorer: the scores without and with an added keyword
    selection,        \* select_high_priority_articles: arguments and result
    newsapi_articles, \* collect_all_news: what fetch_newsapi_articles returned
    all_articles,     \* collect_all_news: the article dicts built from it
    collected_unique, \* collect_all_news: unique_articles
    high_priority_articles,  \* collect_all_news: the selected, then labelled, dicts
    df,               \* collect_all_news: the returned frame, rows [index, row]
    collect_status,   \* "idle" | "fetched" | "built" | "deduped" | "selected"
                      \* | "categorized" | "returned" | "raised"
    fact_input,       \* fact_check_articles: the frame it is called on
    fact_result,      \* fact_check_articles: [raised, value]
    fact_status,      \* "idle" | "input" | "checked"
    hash_order,       \* bill_watcher: the order this process gives a set of str
    bill_text,        \* extract_bill_info: the argument
    bill_info,        \* extract_bill_info and get_affected_companies: the results
    bill_input,       \* analyze_bill_impact: the frame it is called on
    bill_result,      \* analyze_bill_impact: [raised, df, bill_impacts]
    bill_status,      \* "idle" | "input" | "analyzed"
    main_pc,          \* main: "idle", the stage that runs next, "completed" or
                      \* "returned" (main returned early)
    stdout,           \* main: the result line of each stage, <<stage, outcome>>
    df_summarized,    \* main: what summarize_articles returned
    df_fact_checked,  \* main: what fact_check_articles returned
    df_with_bills,    \* main: the frame analyze_bill_impact returned
    bill_impacts,     \* main: the list analyze_bill_impact returned
    html_email        \* main: what create_html_email returned

vars == <<articles, unique_articles, kept, unique_again, dedup_status,
          batch, gemini, fallback_label, ai_label, batch_labels, cat_status,
          now, scored, evaluations, keyword_trial, selection,
          newsapi_articles, all_articles, collected_unique,
          high_priority_articles, df, collect_status,
          fact_input, fact_result, fact_status,
          hash_order, bill_text, bill_info, bill_input, bill_result, bill_status,
          main_pc, stdout, df_summarized, df_fact_checked, df_with_bills,
          bill_impacts, html_email>>

main_vars == <<main_pc, stdout, df_summarized, df_fact_checked, df_with_bills,
               bill_impacts, html_email>>

bill_vars == <<hash_order, bill_text, bill_info, bill_input, bill_result, bill_status>>

fact_vars == <<fact_input, fact_result, fact_status>>

collect_vars == <<newsapi_articles, all_articles, collected_unique,
                  high_priority_articles, df, collect_status>>

prio_vars == <<now, scored, evaluations, keyword_trial, selection>>

cat_vars == <<batch, gemini, fallback_label, ai_label, batch_labels, cat_status>>

dedup_vars == <<articles, unique_articles, kept, unique_again, dedup_status>>

\* ------------------------------------------------------------------ bounds

\* longest argument list of remove_duplicates
MaxArticles == 3

\* largest batch handed to categorize_articles_batch
MaxBatch == 2

\* the last hour the clock reaches
MaxClock == 13

\* most articles fetch_newsapi_articles returns
MaxRaw == 2

\* evaluations of one article record by calculate_article_priority
MaxEvaluations == 2

\* longest argument list of select_high_priority_articles
MaxSelect == 3

\* most rows of a frame handed to fact_check_articles
MaxRows == 3

\* most rows of a frame handed to analyze_bill_impact
MaxBillRows == 2

\* most rows of a frame handed to find_similar_articles on its own
MaxGroupRows == 4

\* most fact dicts of a list handed to check_fact_consistency on its own
MaxFacts == 3

\* the rows of a frame that is only sorted
MaxSortRows == 3

\* the orders of a set of str that are told apart, 0..MaxHashOrder
MaxHashOrder == 3

\* ------------------------------------------------------- Python primitives

\* a key that is present with a null value
None == <<"<None>">>

UpperCase == <<"A","B","C","D","E","F","G","H","I","J","K","L","M","N","O","P","Q","R","S","T","U","V",
          "W","X","Y","Z">>

LowerCase == <<"a","b","c","d","e","f","g","h","i","j","k","l","m","n","o","p","q","r","s","t","u","v",
          "w","x","y","z">>

Whitespace == {" ", "\t", "\n"}

ToLower == [c \in {UpperCase[i] : i \in 1..Len(UpperCase)} |->
               LowerCase[CHOOSE i \in 1..Len(UpperCase) : UpperCase[i] = c]]

lower_char(c) == IF c \in DOMAIN ToLower THEN ToLower[c] ELSE c

\* str.lower()
lower(s) == [i \in 1..Len(s) |-> lower_char(s[i])]

SetMin(S) == CHOOSE x \in S : \A y \in S : x <= y

SetMax(S) == CHOOSE x \in S : \A y \in S : x >= y

\* max(a, b)
max(a, b) == IF a >= b THEN a ELSE b

\* str.strip()
strip(s) ==
    LET solid == {i \in 1..Len(s) : s[i] \notin Whitespace}
    IN  IF solid = {} THEN <<>> ELSE SubSeq(s, SetMin(solid), SetMax(solid))

RECURSIVE split_from(_, _, _)
split_from(s, i, word) ==
    LET done == IF word = <<>> THEN <<>> ELSE <<word>>
    IN  IF i > Len(s) THEN done
        ELSE IF s[i] \in Whitespace THEN done \o split_from(s, i + 1, <<>>)
        ELSE split_from(s, i + 1, Append(word, s[i]))

\* str.split(): the maximal runs of non-whitespace characters
split(s) == split_from(s, 1, <<>>)

\* set(list)
set(seq) == {seq[i] : i \in DOMAIN seq}

\* Python's `sub in text`
contains(text, sub) ==
    \/ sub = <<>>
    \/ \E i \in 1..(Len(text) - Len(sub) + 1) :
           text[i] = sub[1] /\ SubSeq(text, i, i + Len(sub) - 1) = sub

\* dict.get(key, ''): the value of a present key (None included), '' otherwise
get(article, key) == IF key \in DOMAIN article THEN article[key] ELSE <<>>

\* ------------------------------------------------------- remove_duplicates

\* the ratio computed for every pair of headlines
ratio_computed_always(headline, existing_headline) == TRUE

\* line 169: the ratio is computed for two non-empty trimmed headlines only
ratio_computed(headline, existing_headline) ==
    headline # <<>> /\ existing_headline # <<>>

\* line 175: max(len(words1), len(words2)), the divisor of the ratio
overlap_divisor(headline, existing_headline) ==
    max(Cardinality(set(split(headline))), Cardinality(set(split(existing_headline))))

\* len(words1 & words2) / max(len(words1), len(words2)) > 0.8: a stricter threshold
similar_headlines_strict(headline, existing_headline) ==
    /\ headline # <<>>
    /\ existing_headline # <<>>
    /\ LET words1 == set(split(headline))
           words2 == set(split(existing_headline))
       IN  10 * Cardinality(words1 \cap words2)
               > 8 * max(Cardinality(words1), Cardinality(words2))

\* the threshold lowered to 0.6
similar_headlines_loose(headline, existing_headline) ==
    /\ headline # <<>>
    /\ existing_headline # <<>>
    /\ LET words1 == set(split(headline))
           words2 == set(split(existing_headline))
       IN  10 * Cardinality(words1 \cap words2)
               > 6 * max(Cardinality(words1), Cardinality(words2))

\* lines 169-175: both headlines non-empty and
\* len(words1 & words2) / max(len(words1), len(words2)) > 0.7
similar_headlines(headline, existing_headline) ==
    /\ ratio_computed(headline, existing_headline)
    /\ 10 * Cardinality(set(split(headline)) \cap set(split(existing_headline)))
           > 7 * overlap_divisor(headline, existing_headline)

\* lines 164-177: the inner loop over unique_articles
is_duplicate(headline, unique) ==
    \E k \in 1..Len(unique) :
        similar_headlines(headline, strip(lower(get(unique[k], "headline"))))

\* the url recorded even when it is empty
add_seen_url_always(seen_urls, url) == seen_urls \cup {url}

\* lines 182-183: only a non-empty url is recorded
add_seen_url(seen_urls, url) ==
    IF url # <<>> THEN seen_urls \cup {url} ELSE seen_urls

\* The loop of lines 155-183.  st = [unique, kept, seen_headlines, seen_urls].
\* None.lower() and None.strip() raise AttributeError.
RECURSIVE dedup_loop(_, _, _)
dedup_loop(arts, i, st) ==
    IF i > Len(arts) THEN [raised |-> FALSE, value |-> st.unique, kept |-> st.kept]
    ELSE IF get(arts[i], "headline") = None \/ get(arts[i], "url") = None
    THEN [raised |-> TRUE, value |-> <<>>, kept |-> <<>>]
    ELSE
        LET headline == strip(lower(get(arts[i], "headline")))
            url == strip(get(arts[i], "url"))
        IN  IF headline \in st.seen_headlines \/ url \in st.seen_urls
            THEN dedup_loop(arts, i + 1, st)
            ELSE IF is_duplicate(headline, st.unique)
            THEN dedup_loop(arts, i + 1, st)
            ELSE dedup_loop(arts, i + 1,
                    [unique |-> Append(st.unique, arts[i]),
                     kept |-> Append(st.kept, i),
                     seen_headlines |-> st.seen_headlines \cup {headline},
                     seen_urls |-> add_seen_url(st.seen_urls, url)])

\* A dedup that compares each headline with the article just before it in the
\* input only (adjacent duplicates, as uniq does), kept or not.
RECURSIVE dedup_adjacent_loop(_, _, _)
dedup_adjacent_loop(arts, i, st) ==
    IF i > Len(arts) THEN [raised |-> FALSE, value |-> st.unique, kept |-> st.kept]
    ELSE IF get(arts[i], "headline") = None \/ get(arts[i], "url") = None
    THEN [raised |-> TRUE, value |-> <<>>, kept |-> <<>>]
    ELSE
        LET headline == strip(lower(get(arts[i], "headline")))
            url == strip(get(arts[i], "url"))
        IN  IF headline \in st.seen_headlines \/ url \in st.seen_urls
            THEN dedup_adjacent_loop(arts, i + 1, st)
            ELSE IF i > 1 /\ similar_headlines(headline, strip(lower(get(arts[i - 1], "headline"))))
            THEN dedup_adjacent_loop(arts, i + 1, st)
            ELSE dedup_adjacent_loop(arts, i + 1,
                    [unique |-> Append(st.unique, arts[i]),
                     kept |-> Append(st.kept, i),
                     seen_headlines |-> st.seen_headlines \cup {headline},
                     seen_urls |-> add_seen_url(st.seen_urls, url)])

remove_duplicates_adjacent(arts) ==
    IF arts = <<>> THEN [raised |-> FALSE, value |-> arts, kept |-> <<>>]
    ELSE dedup_adjacent_loop(arts, 1,
            [unique |-> <<>>, kept |-> <<>>, seen_headlines |-> {}, seen_urls |-> {}])

\* lines 142-186
remove_duplicates(arts) ==
    IF arts = <<>> THEN [raised |-> FALSE, value |-> arts, kept |-> <<>>]
    ELSE dedup_loop(arts, 1,
            [unique |-> <<>>, kept |-> <<>>, seen_headlines |-> {}, seen_urls |-> {}])

\* ------------------------------------------------------------- categorizer

\* lines 21-101, in declaration order
CATEGORIES == <<
    [category |-> <<"T","e","c","h","n","o","l","o","g","y">>,
     keywords |-> <<
        <<"m","i","c","r","o","s","o","f","t">>,
        <<"a","p","p","l","e">>,
        <<"g","o","o","g","l","e">>,
        <<"a","m","a","z","o","n">>,
        <<"m","e","t","a">>,
        <<"f","a","c","e","b","o","o","k">>,
        <<"t","e","s","l","a">>,
        <<"n","v","i","d","i","a">>,
        <<"a","m","d">>,
        <<"i","n","t","e","l">>,
        <<"n","e","t","f","l","i","x">>,
        <<"s","p","o","t","i","f","y">>,
        <<"u","b","e","r">>,
        <<"l","y","f","t">>,
        <<"a","i","r","b","n","b">>,
        <<"z","o","o","m">>,
        <<"s","l","a","c","k">>,
        <<"s","a","l","e","s","f","o","r","c","e">>,
        <<"a","d","o","b","e">>,
        <<"t","e","c","h","n","o","l","o","g","y">>,
        <<"t","e","c","h">>,
        <<"s","o","f","t","w","a","r","e">>,
        <<"h","a","r","d","w","a","r","e">>,
        <<"A","I">>,
        <<"a","r","t","i","f","i","c","i","a","l"," ","i","n","t","e","l","l","i","g","e","n","c",
          "e">>,
        <<"m","a","c","h","i","n","e"," ","l","e","a","r","n","i","n","g">>,
        <<"b","l","o","c","k","c","h","a","i","n">>,
        <<"c","r","y","p","t","o">>,
        <<"b","i","t","c","o","i","n">>,
        <<"e","t","h","e","r","e","u","m">>,
        <<"a","l","g","o","r","i","t","h","m">>,
        <<"d","a","t","a">>,
        <<"c","l","o","u","d">>,
        <<"i","n","t","e","r","n","e","t">>,
        <<"s","o","c","i","a","l"," ","m","e","d","i","a">>,
        <<"s","m","a","r","t","p","h","o","n","e">>,
        <<"c","o","m","p","u","t","e","r">>,
        <<"l","a","p","t","o","p">>,
        <<"r","o","b","o","t">>,
        <<"a","u","t","o","m","a","t","i","o","n">>,
        <<"s","t","a","r","t","u","p">>,
        <<"v","e","n","t","u","r","e"," ","c","a","p","i","t","a","l">>,
        <<"u","n","i","c","o","r","n">>,
        <<"c","o","d","i","n","g">>,
        <<"p","r","o","g","r","a","m","m","i","n","g">>,
        <<"d","e","v","e","l","o","p","e","r">>,
        <<"c","y","b","e","r","s","e","c","u","r","i","t","y">>,
        <<"d","i","g","i","t","a","l"," ","t","r","a","n","s","f","o","r","m","a","t","i","o","n">>,
        <<"f","i","n","t","e","c","h">>,
        <<"e","d","t","e","c","h">>,
        <<"h","e","a","l","t","h","t","e","c","h">>,
        <<"b","i","o","t","e","c","h">> >>],
    [category |-> <<"H","e","a","l","t","h">>,
     keywords |-> <<
        <<"h","e","a","l","t","h">>,
        <<"m","e","d","i","c","i","n","e">>,
        <<"m","e","d","i","c","a","l">>,
        <<"h","o","s","p","i","t","a","l">>,
        <<"d","o","c","t","o","r">>,
        <<"p","a","t","i","e","n","t">>,
        <<"t","r","e","a","t","m","e","n","t">>,
        <<"d","r","u","g">>,
        <<"p","h","a","r","m","a","c","e","u","t","i","c","a","l">>,
        <<"f","d","a">>,
        <<"c","l","i","n","i","c","a","l"," ","t","r","i","a","l">>,
        <<"s","u","r","g","e","r","y">>,
        <<"d","i","a","g","n","o","s","i","s">>,
        <<"c","a","n","c","e","r">>,
        <<"v","i","r","u","s">>,
        <<"i","n","f","e","c","t","i","o","n">>,
        <<"t","h","e","r","a","p","y">>,
        <<"m","e","d","i","c","a","t","i","o","n">>,
        <<"h","e","a","l","t","h","c","a","r","e">>,
        <<"i","n","s","u","r","a","n","c","e">>,
        <<"m","e","n","t","a","l"," ","h","e","a","l","t","h">>,
        <<"p","s","y","c","h","o","l","o","g","y">>,
        <<"n","u","t","r","i","t","i","o","n">>,
        <<"f","i","t","n","e","s","s">>,
        <<"e","x","e","r","c","i","s","e">>,
        <<"d","i","e","t">>,
        <<"w","e","l","l","n","e","s","s">>,
        <<"p","f","i","z","e","r">>,
        <<"m","o","d","e","r","n","a">>,
        <<"j","o","h","n","s","o","n"," ","&"," ","j","o","h","n","s","o","n">>,
        <<"j","&","j">>,
        <<"a","s","t","r","a","z","e","n","e","c","a">>,
        <<"n","o","v","a","r","t","i","s">>,
        <<"r","o","c","h","e">>,
        <<"m","e","r","c","k">>,
        <<"g","i","l","e","a","d">>,
        <<"b","i","o","g","e","n">>,
        <<"a","m","g","e","n">>,
        <<"r","e","g","e","n","e","r","o","n">>,
        <<"c","d","c">>,
        <<"w","h","o">>,
        <<"g","e","n","e","t","i","c","s">> >>],
    [category |-> <<"G","o","v","e","r","n","m","e","n","t","/","P","o","l","i","c","y">>,
     keywords |-> <<
        <<"g","o","v","e","r","n","m","e","n","t">>,
        <<"w","h","i","t","e"," ","h","o","u","s","e">>,
        <<"c","o","n","g","r","e","s","s">>,
        <<"s","e","n","a","t","e">>,
        <<"h","o","u","s","e">>,
        <<"p","r","e","s","i","d","e","n","t">>,
        <<"a","d","m","i","n","i","s","t","r","a","t","i","o","n">>,
        <<"f","e","d","e","r","a","l">>,
        <<"s","t","a","t","e">>,
        <<"s","u","p","r","e","m","e"," ","c","o","u","r","t">>,
        <<"j","u","s","t","i","c","e">>,
        <<"a","t","t","o","r","n","e","y"," ","g","e","n","e","r","a","l">>,
        <<"d","e","p","a","r","t","m","e","n","t">>,
        <<"a","g","e","n","c","y">>,
        <<"f","b","i">>,
        <<"c","i","a">>,
        <<"n","s","a">>,
        <<"d","e","p","a","r","t","m","e","n","t"," ","o","f"," ","d","e","f","e","n","s","e">>,
        <<"d","o","d">>,
        <<"d","e","p","a","r","t","m","e","n","t"," ","o","f"," ","s","t","a","t","e">>,
        <<"d","o","s">>,
        <<"p","o","l","i","c","y">>,
        <<"l","a","w">>,
        <<"b","i","l","l">>,
        <<"r","e","g","u","l","a","t","i","o","n">>,
        <<"l","e","g","i","s","l","a","t","i","o","n">>,
        <<"v","o","t","e">>,
        <<"e","l","e","c","t","i","o","n">>,
        <<"c","a","m","p","a","i","g","n">>,
        <<"d","e","m","o","c","r","a","t">>,
        <<"r","e","p","u","b","l","i","c","a","n">>,
        <<"p","o","l","i","t","i","c","i","a","n">>,
        <<"b","u","d","g","e","t">>,
        <<"t","a","x">>,
        <<"i","m","m","i","g","r","a","t","i","o","n">>,
        <<"f","o","r","e","i","g","n"," ","p","o","l","i","c","y">>,
        <<"d","i","p","l","o","m","a","c","y">>,
        <<"e","x","e","c","u","t","i","v","e"," ","o","r","d","e","r">>,
        <<"v","e","t","o">>,
        <<"i","m","p","e","a","c","h","m","e","n","t">>,
        <<"c","o","n","f","i","r","m","a","t","i","o","n">>,
        <<"n","o","m","i","n","a","t","i","o","n">> >>],
    [category |-> <<"E","c","o","n","o","m","y">>,
     keywords |-> <<
        <<"e","c","o","n","o","m","y">>,
        <<"e","c","o","n","o","m","i","c">>,
        <<"g","d","p">>,
        <<"i","n","f","l","a","t","i","o","n">>,
        <<"j","o","b","s">>,
        <<"e","m","p","l","o","y","m","e","n","t">>,
        <<"r","e","c","e","s","s","i","o","n">>,
        <<"g","r","o","w","t","h">>,
        <<"m","a","r","k","e","t">>,
        <<"c","o","n","s","u","m","e","r">>,
        <<"s","p","e","n","d","i","n","g">>,
        <<"r","e","t","a","i","l">>,
        <<"m","a","n","u","f","a","c","t","u","r","i","n","g">>,
        <<"t","r","a","d","e">>,
        <<"i","m","p","o","r","t">>,
        <<"e","x","p","o","r","t">>,
        <<"b","u","s","i","n","e","s","s">>,
        <<"c","o","r","p","o","r","a","t","e">>,
        <<"i","n","d","u","s","t","r","y">>,
        <<"s","e","c","t","o","r">>,
        <<"p","r","o","d","u","c","t","i","v","i","t","y">>,
        <<"w","a","g","e","s">>,
        <<"s","a","l","a","r","y">>,
        <<"i","n","c","o","m","e">>,
        <<"p","o","v","e","r","t","y">>,
        <<"w","e","a","l","t","h">>,
        <<"m","i","d","d","l","e"," ","c","l","a","s","s">>,
        <<"e","c","o","n","o","m","i","c"," ","g","r","o","w","t","h">>,
        <<"e","c","o","n","o","m","i","c"," ","r","e","c","o","v","e","r","y">>,
        <<"e","c","o","n","o","m","i","c"," ","s","t","i","m","u","l","u","s">> >>],
    [category |-> <<"F","i","n","a","n","c","e">>,
     keywords |-> <<
        <<"f","i","n","a","n","c","e">>,
        <<"s","t","o","c","k">>,
        <<"m","a","r","k","e","t">>,
        <<"e","a","r","n","i","n","g","s">>,
        <<"a","n","a","l","y","s","t">>,
        <<"M","&","A">>,
        <<"s","e","c">>,
        <<"i","p","o">>,
        <<"m","e","r","g","e","r">>,
        <<"a","c","q","u","i","s","i","t","i","o","n">>,
        <<"i","n","v","e","s","t","m","e","n","t">>,
        <<"t","r","a","d","i","n","g">>,
        <<"p","o","r","t","f","o","l","i","o">>,
        <<"f","u","n","d">>,
        <<"b","a","n","k">>,
        <<"b","a","n","k","i","n","g">>,
        <<"c","r","e","d","i","t">>,
        <<"l","o","a","n">>,
        <<"m","o","r","t","g","a","g","e">>,
        <<"i","n","t","e","r","e","s","t"," ","r","a","t","e">>,
        <<"f","e","d","e","r","a","l"," ","r","e","s","e","r","v","e">>,
        <<"f","e","d">>,
        <<"d","o","w">>,
        <<"n","a","s","d","a","q">>,
        <<"s","&","p">>,
        <<"w","a","l","l"," ","s","t","r","e","e","t">>,
        <<"h","e","d","g","e"," ","f","u","n","d">>,
        <<"p","r","i","v","a","t","e"," ","e","q","u","i","t","y">>,
        <<"d","i","v","i","d","e","n","d">>,
        <<"r","e","v","e","n","u","e">>,
        <<"p","r","o","f","i","t">>,
        <<"l","o","s","s">>,
        <<"q","u","a","r","t","e","r","l","y">>,
        <<"a","n","n","u","a","l">>,
        <<"s","h","a","r","e","h","o","l","d","e","r">>,
        <<"b","o","a","r","d">>,
        <<"c","e","o">>,
        <<"c","f","o">>,
        <<"e","x","e","c","u","t","i","v","e">>,
        <<"j","p","m","o","r","g","a","n">>,
        <<"b","a","n","k"," ","o","f"," ","a","m","e","r","i","c","a">>,
        <<"w","e","l","l","s"," ","f","a","r","g","o">>,
        <<"c","i","t","i","g","r","o","u","p">>,
        <<"g","o","l","d","m","a","n"," ","s","a","c","h","s">>,
        <<"m","o","r","g","a","n"," ","s","t","a","n","l","e","y">>,
        <<"b","l","a","c","k","r","o","c","k">>,
        <<"v","a","n","g","u","a","r","d">>,
        <<"f","i","d","e","l","i","t","y">>,
        <<"c","h","a","r","l","e","s"," ","s","c","h","w","a","b">> >>],
    [category |-> <<"W","o","r","l","d">>,
     keywords |-> <<
        <<"w","o","r","l","d">>,
        <<"g","l","o","b","a","l">>,
        <<"i","n","t","e","r","n","a","t","i","o","n","a","l">>,
        <<"f","o","r","e","i","g","n">>,
        <<"d","i","p","l","o","m","a","c","y">>,
        <<"e","m","b","a","s","s","y">>,
        <<"a","m","b","a","s","s","a","d","o","r">>,
        <<"u","n","i","t","e","d"," ","n","a","t","i","o","n","s">>,
        <<"n","a","t","o">>,
        <<"e","u","r","o","p","e">>,
        <<"a","s","i","a">>,
        <<"a","f","r","i","c","a">>,
        <<"l","a","t","i","n"," ","a","m","e","r","i","c","a">>,
        <<"m","i","d","d","l","e"," ","e","a","s","t">>,
        <<"r","u","s","s","i","a">>,
        <<"c","h","i","n","a">>,
        <<"j","a","p","a","n">>,
        <<"g","e","r","m","a","n","y">>,
        <<"f","r","a","n","c","e">>,
        <<"u","k">>,
        <<"c","a","n","a","d","a">>,
        <<"m","e","x","i","c","o">>,
        <<"t","h","a","i","l","a","n","d">>,
        <<"c","a","m","b","o","d","i","a">>,
        <<"i","r","a","n">>,
        <<"i","r","a","n","i","a","n">>,
        <<"i","s","r","a","e","l">>,
        <<"p","a","l","e","s","t","i","n","e">>,
        <<"u","k","r","a","i","n","e">>,
        <<"i","n","d","i","a">>,
        <<"b","r","a","z","i","l">>,
        <<"a","u","s","t","r","a","l","i","a">>,
        <<"s","o","u","t","h"," ","k","o","r","e","a">>,
        <<"n","o","r","t","h"," ","k","o","r","e","a">>,
        <<"t","u","r","k","e","y">>,
        <<"s","a","u","d","i"," ","a","r","a","b","i","a">>,
        <<"e","g","y","p","t">>,
        <<"n","i","g","e","r","i","a">>,
        <<"s","o","u","t","h"," ","a","f","r","i","c","a">>,
        <<"k","e","n","y","a">>,
        <<"e","t","h","i","o","p","i","a">>,
        <<"m","o","r","o","c","c","o">>,
        <<"a","l","g","e","r","i","a">>,
        <<"t","u","n","i","s","i","a">>,
        <<"l","i","b","y","a">>,
        <<"s","u","d","a","n">>,
        <<"w","a","r">>,
        <<"c","o","n","f","l","i","c","t">>,
        <<"p","e","a","c","e">>,
        <<"t","r","e","a","t","y">>,
        <<"a","l","l","i","a","n","c","e">>,
        <<"s","a","n","c","t","i","o","n">>,
        <<"e","m","b","a","r","g","o">>,
        <<"t","e","r","r","o","r","i","s","m">>,
        <<"r","e","f","u","g","e","e">>,
        <<"m","i","g","r","a","t","i","o","n">>,
        <<"b","o","r","d","e","r">>,
        <<"i","m","m","i","g","r","a","t","i","o","n">>,
        <<"d","i","p","l","o","m","a","t","i","c">>,
        <<"f","o","r","e","i","g","n"," ","m","i","n","i","s","t","e","r">>,
        <<"p","r","e","s","i","d","e","n","t">>,
        <<"p","r","i","m","e"," ","m","i","n","i","s","t","e","r">>,
        <<"k","i","n","g">>,
        <<"q","u","e","e","n">>,
        <<"r","o","y","a","l">>,
        <<"m","o","n","a","r","c","h","y">>,
        <<"r","e","p","u","b","l","i","c">>,
        <<"d","e","m","o","c","r","a","c","y">>,
        <<"e","l","e","c","t","i","o","n">>,
        <<"v","o","t","e">>,
        <<"p","r","o","t","e","s","t">>,
        <<"d","e","m","o","n","s","t","r","a","t","i","o","n">>,
        <<"r","i","o","t">>,
        <<"c","i","v","i","l"," ","w","a","r">>,
        <<"c","o","u","p">>,
        <<"r","e","v","o","l","u","t","i","o","n">>,
        <<"i","n","d","e","p","e","n","d","e","n","c","e">>,
        <<"s","o","v","e","r","e","i","g","n","t","y">>,
        <<"t","e","r","r","i","t","o","r","y">>,
        <<"b","o","r","d","e","r"," ","d","i","s","p","u","t","e">>,
        <<"t","r","a","d","e"," ","w","a","r">>,
        <<"e","c","o","n","o","m","i","c"," ","s","a","n","c","t","i","o","n","s">>,
        <<"h","u","m","a","n","i","t","a","r","i","a","n">>,
        <<"a","i","d">>,
        <<"d","i","s","a","s","t","e","r">>,
        <<"e","a","r","t","h","q","u","a","k","e">>,
        <<"t","s","u","n","a","m","i">>,
        <<"h","u","r","r","i","c","a","n","e">>,
        <<"f","l","o","o","d">>,
        <<"d","r","o","u","g","h","t">>,
        <<"f","a","m","i","n","e">>,
        <<"p","a","n","d","e","m","i","c">>,
        <<"e","p","i","d","e","m","i","c">>,
        <<"o","u","t","b","r","e","a","k">> >>],
    [category |-> <<"S","p","a","c","e">>,
     keywords |-> <<
        <<"s","p","a","c","e">>,
        <<"n","a","s","a">>,
        <<"s","p","a","c","e","x">>,
        <<"b","l","u","e"," ","o","r","i","g","i","n">>,
        <<"v","i","r","g","i","n"," ","g","a","l","a","c","t","i","c">>,
        <<"b","o","e","i","n","g">>,
        <<"l","o","c","k","h","e","e","d"," ","m","a","r","t","i","n">>,
        <<"n","o","r","t","h","r","o","p"," ","g","r","u","m","m","a","n">>,
        <<"a","s","t","r","o","n","a","u","t">>,
        <<"s","a","t","e","l","l","i","t","e">>,
        <<"r","o","c","k","e","t">>,
        <<"s","p","a","c","e","c","r","a","f","t">>,
        <<"s","p","a","c","e"," ","s","t","a","t","i","o","n">>,
        <<"i","s","s">>,
        <<"i","n","t","e","r","n","a","t","i","o","n","a","l"," ","s","p","a","c","e"," ","s","t",
          "a","t","i","o","n">>,
        <<"m","a","r","s">>,
        <<"m","o","o","n">>,
        <<"p","l","a","n","e","t">>,
        <<"g","a","l","a","x","y">>,
        <<"u","n","i","v","e","r","s","e">>,
        <<"o","r","b","i","t">>,
        <<"l","a","u","n","c","h">>,
        <<"t","e","l","e","s","c","o","p","e">>,
        <<"h","u","b","b","l","e">>,
        <<"j","a","m","e","s"," ","w","e","b","b">>,
        <<"r","o","v","e","r">>,
        <<"p","r","o","b","e">>,
        <<"m","i","s","s","i","o","n">>,
        <<"s","p","a","c","e"," ","e","x","p","l","o","r","a","t","i","o","n">>,
        <<"c","o","s","m","o","s">>,
        <<"s","t","e","l","l","a","r">>,
        <<"i","n","t","e","r","s","t","e","l","l","a","r">>,
        <<"s","o","l","a","r"," ","s","y","s","t","e","m">>,
        <<"a","s","t","e","r","o","i","d">>,
        <<"m","e","t","e","o","r">>,
        <<"c","o","m","e","t">>,
        <<"b","l","a","c","k"," ","h","o","l","e">>,
        <<"n","e","b","u","l","a">>,
        <<"s","t","a","r">>,
        <<"c","o","n","s","t","e","l","l","a","t","i","o","n">>,
        <<"a","s","t","r","o","n","o","m","y">>,
        <<"a","s","t","r","o","p","h","y","s","i","c","s">>,
        <<"c","o","s","m","o","l","o","g","y">>,
        <<"g","r","a","v","i","t","y">>,
        <<"z","e","r","o"," ","g","r","a","v","i","t","y">>,
        <<"m","i","c","r","o","g","r","a","v","i","t","y">>,
        <<"s","p","a","c","e"," ","s","u","i","t">>,
        <<"s","p","a","c","e","w","a","l","k">>,
        <<"s","p","a","c","e"," ","t","o","u","r","i","s","m">>,
        <<"s","p","a","c","e"," ","m","i","n","i","n","g">>,
        <<"m","a","r","s"," ","c","o","l","o","n","y">>,
        <<"l","u","n","a","r"," ","b","a","s","e">>,
        <<"s","p","a","c","e"," ","d","e","b","r","i","s">>,
        <<"s","p","a","c","e"," ","j","u","n","k">>,
        <<"s","p","a","c","e"," ","t","r","a","f","f","i","c">>,
        <<"s","p","a","c","e"," ","l","a","w">> >>] >>

Technology == <<"T","e","c","h","n","o","l","o","g","y">>

Health == <<"H","e","a","l","t","h">>

GovernmentPolicy == <<"G","o","v","e","r","n","m","e","n","t","/","P","o","l","i","c","y">>

Economy == <<"E","c","o","n","o","m","y">>

Finance == <<"F","i","n","a","n","c","e">>

World == <<"W","o","r","l","d">>

Space == <<"S","p","a","c","e">>

Miscellaneous == <<"M","i","s","c","e","l","l","a","n","e","o","u","s">>

\* lines 196-198 and 319-321: the names the response is searched for
categories == <<Technology, Health, GovernmentPolicy, Economy, Finance, World, Space>>

\* the call raised instead of returning
Raised == <<"<raised>">>

\* no category found
NoMatch == <<>>

\* lines 415-439: the pattern lists tried after CATEGORIES, as written
FallbackPatterns == <<
    [category |-> GovernmentPolicy, patterns |-> <<
    <<"w","h","i","t","e"," ","h","o","u","s","e">>,
    <<"c","o","n","g","r","e","s","s">>,
    <<"s","e","n","a","t","e">>,
    <<"h","o","u","s","e"," ","o","f"," ","r","e","p","r","e","s","e","n","t","a","t","i","v",
      "e","s">>,
    <<"p","r","e","s","i","d","e","n","t">>,
    <<"a","d","m","i","n","i","s","t","r","a","t","i","o","n">>,
    <<"f","e","d","e","r","a","l"," ","g","o","v","e","r","n","m","e","n","t">>,
    <<"e","x","e","c","u","t","i","v","e"," ","o","r","d","e","r">>,
    <<"s","u","p","r","e","m","e"," ","c","o","u","r","t">> >>],
    [category |-> Technology, patterns |-> <<
    <<"m","i","c","r","o","s","o","f","t">>,
    <<"a","p","p","l","e">>,
    <<"g","o","o","g","l","e">>,
    <<"a","m","a","z","o","n">>,
    <<"t","e","s","l","a">>,
    <<"n","v","i","d","i","a">>,
    <<"a","r","t","i","f","i","c","i","a","l"," ","i","n","t","e","l","l","i","g","e","n","c",
      "e">>,
    <<"A","I">>,
    <<"s","o","f","t","w","a","r","e">>,
    <<"t","e","c","h"," ","c","o","m","p","a","n","y">> >>],
    [category |-> World, patterns |-> <<
    <<"t","h","a","i","l","a","n","d">>,
    <<"c","a","m","b","o","d","i","a">>,
    <<"i","r","a","n">>,
    <<"i","r","a","n","i","a","n">>,
    <<"p","r","i","n","c","e">>,
    <<"d","e","f","e","c","t","o","r">>,
    <<"r","e","f","u","g","e","e">>,
    <<"m","i","g","r","a","t","i","o","n">>,
    <<"b","o","r","d","e","r">>,
    <<"d","i","p","l","o","m","a","t","i","c">>,
    <<"f","o","r","e","i","g","n"," ","m","i","n","i","s","t","e","r">>,
    <<"e","m","b","a","s","s","y">>,
    <<"a","m","b","a","s","s","a","d","o","r">> >>],
    [category |-> Space, patterns |-> <<
    <<"n","a","s","a">>,
    <<"s","p","a","c","e","x">>,
    <<"a","s","t","r","o","n","a","u","t">>,
    <<"s","a","t","e","l","l","i","t","e">>,
    <<"r","o","c","k","e","t">>,
    <<"s","p","a","c","e","c","r","a","f","t">>,
    <<"m","a","r","s">>,
    <<"m","o","o","n">>,
    <<"p","l","a","n","e","t">>,
    <<"g","a","l","a","x","y">>,
    <<"u","n","i","v","e","r","s","e">>,
    <<"o","r","b","i","t">>,
    <<"l","a","u","n","c","h">>,
    <<"s","p","a","c","e"," ","s","t","a","t","i","o","n">>,
    <<"i","s","s">> >>],
    [category |-> Finance, patterns |-> <<
    <<"s","t","o","c","k"," ","m","a","r","k","e","t">>,
    <<"e","a","r","n","i","n","g","s">>,
    <<"t","r","a","d","i","n","g">>,
    <<"w","a","l","l"," ","s","t","r","e","e","t">>,
    <<"f","e","d","e","r","a","l"," ","r","e","s","e","r","v","e">>,
    <<"i","n","t","e","r","e","s","t"," ","r","a","t","e">>,
    <<"d","o","w"," ","j","o","n","e","s">>,
    <<"n","a","s","d","a","q">>,
    <<"s","&","p"," ","5","0","0">> >>],
    [category |-> Health, patterns |-> <<
    <<"m","e","d","i","c","a","l">>,
    <<"h","o","s","p","i","t","a","l">>,
    <<"d","o","c","t","o","r">>,
    <<"p","a","t","i","e","n","t">>,
    <<"t","r","e","a","t","m","e","n","t">>,
    <<"d","r","u","g">>,
    <<"p","h","a","r","m","a","c","e","u","t","i","c","a","l">>,
    <<"f","d","a">>,
    <<"c","l","i","n","i","c","a","l"," ","t","r","i","a","l">>,
    <<"s","u","r","g","e","r","y">>,
    <<"d","i","a","g","n","o","s","i","s">>,
    <<"c","a","n","c","e","r">>,
    <<"v","i","r","u","s">>,
    <<"i","n","f","e","c","t","i","o","n">>,
    <<"t","h","e","r","a","p","y">>,
    <<"m","e","d","i","c","a","t","i","o","n">>,
    <<"c","d","c">>,
    <<"w","h","o">>,
    <<"g","e","n","e","t","i","c","s">> >>],
    [category |-> Economy, patterns |-> <<
    <<"g","d","p">>,
    <<"i","n","f","l","a","t","i","o","n">>,
    <<"j","o","b","s">>,
    <<"e","m","p","l","o","y","m","e","n","t">>,
    <<"r","e","c","e","s","s","i","o","n">>,
    <<"e","c","o","n","o","m","i","c"," ","g","r","o","w","t","h">>,
    <<"e","c","o","n","o","m","i","c"," ","r","e","c","o","v","e","r","y">>,
    <<"e","c","o","n","o","m","i","c"," ","s","t","i","m","u","l","u","s">>,
    <<"c","o","n","s","u","m","e","r"," ","s","p","e","n","d","i","n","g">>,
    <<"r","e","t","a","i","l"," ","s","a","l","e","s">>,
    <<"m","a","n","u","f","a","c","t","u","r","i","n","g">> >>] >>

\* any(pattern in text for pattern in patterns)
any_in(patterns, text) ==
    \E k \in 1..Len(patterns) : contains(text, patterns[k])

\* the keyword compared as written, without keyword.lower()
keyword_hit_cased(keywords, text) ==
    \E k \in 1..Len(keywords) : contains(text, keywords[k])

\* lines 409-410: keyword.lower() in text, for some keyword of the list
keyword_hit(keywords, text) ==
    \E k \in 1..Len(keywords) : contains(text, lower(keywords[k]))

\* the first entry of `table`, from position i on, whose test succeeds
RECURSIVE first_category(_, _, _)
first_category(table, i, text) ==
    IF i > Len(table) THEN NoMatch
    ELSE IF keyword_hit(table[i].keywords, text) THEN table[i].category
    ELSE first_category(table, i + 1, text)

RECURSIVE first_pattern(_, _, _)
first_pattern(table, i, text) ==
    IF i > Len(table) THEN NoMatch
    ELSE IF any_in(table[i].patterns, text) THEN table[i].category
    ELSE first_pattern(table, i + 1, text)

\* lines 401-442.  None + ' ' and str + None raise TypeError.
categorize_article_fallback(article) ==
    IF get(article, "headline") = None \/ get(article, "description") = None THEN Raised
    ELSE
        LET text == lower(get(article, "headline") \o <<" ">> \o get(article, "description"))
            by_keyword == first_category(CATEGORIES, 1, text)
            by_pattern == first_pattern(FallbackPatterns, 1, text)
        IN  IF by_keyword # NoMatch THEN by_keyword
            ELSE IF by_pattern # NoMatch THEN by_pattern
            ELSE Miscellaneous

\* str.replace('"', '').replace("'", "")
remove_quotes(s) == SelectSeq(s, LAMBDA c : c \notin {"\"", "'"})

\* lines 374-376 and 267-270: the first category whose lower-cased name occurs
\* in the lower-cased response
RECURSIVE named_category(_, _)
named_category(i, response) ==
    IF i > Len(categories) THEN NoMatch
    ELSE IF contains(lower(response), lower(categories[i])) THEN categories[i]
    ELSE named_category(i + 1, response)

\* lines 379-392 and 273-286: the secondary inference table
inferred_category(response) ==
    LET r == lower(response)
    IN  IF contains(r, <<"t","e","c","h">>) \/ contains(r, <<"s","o","f","t","w","a","r","e">>) THEN Technology
        ELSE IF contains(r, <<"h","e","a","l","t","h">>) \/ contains(r, <<"m","e","d","i","c","a","l">>) THEN Health
        ELSE IF contains(r, <<"g","o","v","e","r","n","m","e","n","t">>) \/ contains(r, <<"p","o","l","i","c","y">>)
                    \/ contains(r, <<"p","o","l","i","t","i","c","s">>) THEN GovernmentPolicy
        ELSE IF contains(r, <<"e","c","o","n","o","m","y">>) \/ contains(r, <<"e","c","o","n","o","m","i","c">>) THEN Economy
        ELSE IF contains(r, <<"f","i","n","a","n","c","e">>) \/ contains(r, <<"s","t","o","c","k">>)
                    \/ contains(r, <<"m","a","r","k","e","t">>) THEN Finance
        ELSE IF contains(r, <<"w","o","r","l","d">>) \/ contains(r, <<"i","n","t","e","r","n","a","t","i","o","n","a","l">>) THEN World
        ELSE IF contains(r, <<"s","p","a","c","e">>) \/ contains(r, <<"n","a","s","a">>) THEN Space
        ELSE NoMatch

\* f"{value}": None is formatted as the text None
format(value) == IF value = None THEN <<"N","o","n","e">> ELSE value

\* f"{headline} {description} {content}".strip()
full_text(article) ==
    strip(format(get(article, "headline")) \o <<" ">>
              \o format(get(article, "description")) \o <<" ">>
              \o format(get(article, "content")))

\* What the request does: gemini.key tells whether GEMINI_API_KEY is set,
\* gemini.reply is "raises" (requests.post or response.json() raises, or the
\* candidate has no content/parts/text), "error" (a status other than 200),
\* "empty" (200 without candidates) or "text" (200 with gemini.text).
answered(g) == g.key /\ g.reply = "text"

\* an unmapped response labelled Miscellaneous instead of falling back
categorize_article_with_ai_misc(article, g) ==
    IF full_text(article) = <<>> THEN Miscellaneous
    ELSE IF answered(g)
    THEN LET ai_response == strip(remove_quotes(strip(g.text)))
             named == named_category(1, ai_response)
             inferred == inferred_category(ai_response)
         IN  IF named # NoMatch THEN named
             ELSE IF inferred # NoMatch THEN inferred
             ELSE Miscellaneous
    ELSE categorize_article_fallback(article)

\* lines 304-399
categorize_article_with_ai(article, g) ==
    IF full_text(article) = <<>> THEN Miscellaneous
    ELSE IF answered(g)
    THEN LET ai_response == strip(remove_quotes(strip(g.text)))
             named == named_category(1, ai_response)
             inferred == inferred_category(ai_response)
         IN  IF named # NoMatch THEN named
             ELSE IF inferred # NoMatch THEN inferred
             ELSE categorize_article_fallback(article)
    ELSE categorize_article_fallback(article)

\* str.split(sep) for a one-character separator: the pieces between the
\* occurrences of the separator
split_on(s, sep) ==
    LET seps == {i \in 1..Len(s) : s[i] = sep}
        sep_at(k) == IF k = 0 THEN 0
                     ELSE IF k > Cardinality(seps) THEN Len(s) + 1
                     ELSE CHOOSE i \in seps : Cardinality({j \in seps : j < i}) = k - 1
    IN  [k \in 1..(Cardinality(seps) + 1) |-> SubSeq(s, sep_at(k - 1) + 1, sep_at(k) - 1)]

\* lines 264-288: the label of one response line, NoMatch for a blank line
line_category(raw_line) ==
    LET line == remove_quotes(strip(raw_line))
        named == named_category(1, line)
        inferred == inferred_category(line)
    IN  IF line = <<>> THEN NoMatch
        ELSE IF named # NoMatch THEN named
        ELSE IF inferred # NoMatch THEN inferred
        ELSE Miscellaneous

\* lines 260-288: categories_result
RECURSIVE parse_lines(_, _)
parse_lines(lines, i) ==
    IF i > Len(lines) THEN <<>>
    ELSE LET label == line_category(lines[i])
         IN  (IF label = NoMatch THEN <<>> ELSE <<label>>) \o parse_lines(lines, i + 1)

\* the list returned without the padding loop of lines 291-292
pad_and_cut_unpadded(labels, n) ==
    [k \in 1..(IF Len(labels) < n THEN Len(labels) ELSE n) |-> labels[k]]

\* lines 291-294: pad with Miscellaneous up to n, then keep the first n
pad_and_cut(labels, n) ==
    [k \in 1..n |-> IF k <= Len(labels) THEN labels[k] ELSE Miscellaneous]

\* [categorize_article_fallback(article) for article in articles]; the first
\* exception ends the comprehension
fallback_all(arts) ==
    LET labels == [k \in 1..Len(arts) |-> categorize_article_fallback(arts[k])]
    IN  IF \E k \in 1..Len(arts) : labels[k] = Raised THEN Raised ELSE labels

\* lines 188-302
categorize_articles_batch(arts, g) ==
    IF arts = <<>> THEN <<>>
    ELSE IF answered(g)
    THEN pad_and_cut(parse_lines(split_on(strip(g.text), "\n"), 1), Len(arts))
    ELSE fallback_all(arts)

\* ---------------------------------------------------------- priority scorer

\* Scores are counted in halves: 20 is the source's 10.0, 1 is 0.5.

\* lines 461-465
trusted_sources == <<
    <<"r","e","u","t","e","r","s">>,
    <<"a","s","s","o","c","i","a","t","e","d"," ","p","r","e","s","s">>,
    <<"a","p">>,
    <<"b","l","o","o","m","b","e","r","g">>,
    <<"b","b","c">>,
    <<"w","a","l","l"," ","s","t","r","e","e","t"," ","j","o","u","r","n","a","l">>,
    <<"w","s","j">>,
    <<"f","i","n","a","n","c","i","a","l"," ","t","i","m","e","s">>,
    <<"f","t">>,
    <<"t","h","e"," ","g","u","a","r","d","i","a","n">>,
    <<"p","b","s"," ","n","e","w","s","h","o","u","r">>,
    <<"p","o","l","i","t","i","c","o">>,
    <<"a","l"," ","j","a","z","e","e","r","a">>,
    <<"t","h","e"," ","h","i","l","l">>,
    <<"a","x","i","o","s">> >>

\* lines 473-476
breaking_keywords == <<
    <<"b","r","e","a","k","i","n","g">>,
    <<"u","r","g","e","n","t">>,
    <<"j","u","s","t"," ","i","n">>,
    <<"d","e","v","e","l","o","p","i","n","g">>,
    <<"l","i","v","e">>,
    <<"u","p","d","a","t","e">>,
    <<"a","l","e","r","t">>,
    <<"c","r","i","s","i","s">>,
    <<"e","m","e","r","g","e","n","c","y">>,
    <<"d","e","a","d","l","i","n","e">>,
    <<"d","e","a","d","l","i","n","e">>,
    <<"i","m","m","e","d","i","a","t","e">>,
    <<"c","r","i","t","i","c","a","l">> >>

\* lines 484-490
high_impact_keywords == <<
    <<"p","r","e","s","i","d","e","n","t">>,
    <<"c","o","n","g","r","e","s","s">>,
    <<"s","e","n","a","t","e">>,
    <<"h","o","u","s","e">>,
    <<"w","h","i","t","e"," ","h","o","u","s","e">>,
    <<"a","d","m","i","n","i","s","t","r","a","t","i","o","n">>,
    <<"f","e","d","e","r","a","l"," ","r","e","s","e","r","v","e">>,
    <<"f","e","d">>,
    <<"s","e","c">>,
    <<"f","d","a">>,
    <<"s","u","p","r","e","m","e"," ","c","o","u","r","t">>,
    <<"e","l","e","c","t","i","o","n">>,
    <<"a","p","p","l","e">>,
    <<"m","i","c","r","o","s","o","f","t">>,
    <<"g","o","o","g","l","e">>,
    <<"a","m","a","z","o","n">>,
    <<"t","e","s","l","a">>,
    <<"n","v","i","d","i","a">>,
    <<"m","e","t","a">>,
    <<"j","p","m","o","r","g","a","n">>,
    <<"g","o","l","d","m","a","n"," ","s","a","c","h","s">>,
    <<"b","a","n","k"," ","o","f"," ","a","m","e","r","i","c","a">>,
    <<"w","e","l","l","s"," ","f","a","r","g","o">>,
    <<"p","f","i","z","e","r">>,
    <<"m","o","d","e","r","n","a">>,
    <<"j","o","h","n","s","o","n"," ","&"," ","j","o","h","n","s","o","n">>,
    <<"a","s","t","r","a","z","e","n","e","c","a">> >>

\* lines 497-501
market_keywords == <<
    <<"e","a","r","n","i","n","g","s">>,
    <<"q","u","a","r","t","e","r","l","y"," ","r","e","s","u","l","t","s">>,
    <<"s","t","o","c","k"," ","m","a","r","k","e","t">>,
    <<"d","o","w"," ","j","o","n","e","s">>,
    <<"n","a","s","d","a","q">>,
    <<"s","&","p">>,
    <<"m","e","r","g","e","r">>,
    <<"a","c","q","u","i","s","i","t","i","o","n">>,
    <<"i","p","o">>,
    <<"b","a","n","k","r","u","p","t","c","y">>,
    <<"l","a","y","o","f","f","s">>,
    <<"h","i","r","i","n","g">>,
    <<"i","n","t","e","r","e","s","t"," ","r","a","t","e">>,
    <<"i","n","f","l","a","t","i","o","n">>,
    <<"g","d","p">>,
    <<"j","o","b","s"," ","r","e","p","o","r","t">>,
    <<"u","n","e","m","p","l","o","y","m","e","n","t">> >>

\* lines 508-512
tech_keywords == <<
    <<"a","r","t","i","f","i","c","i","a","l"," ","i","n","t","e","l","l","i","g","e","n","c",
      "e">>,
    <<"a","i">>,
    <<"m","a","c","h","i","n","e"," ","l","e","a","r","n","i","n","g">>,
    <<"b","l","o","c","k","c","h","a","i","n">>,
    <<"c","r","y","p","t","o">>,
    <<"c","y","b","e","r","s","e","c","u","r","i","t","y">>,
    <<"d","a","t","a"," ","b","r","e","a","c","h">>,
    <<"h","a","c","k">>,
    <<"s","o","f","t","w","a","r","e">>,
    <<"s","t","a","r","t","u","p">>,
    <<"u","n","i","c","o","r","n">>,
    <<"s","p","a","c","e","x">>,
    <<"n","a","s","a">>,
    <<"s","a","t","e","l","l","i","t","e">>,
    <<"r","o","c","k","e","t">>,
    <<"s","p","a","c","e"," ","e","x","p","l","o","r","a","t","i","o","n">> >>

\* lines 519-523
health_keywords == <<
    <<"c","o","v","i","d">>,
    <<"p","a","n","d","e","m","i","c">>,
    <<"v","a","c","c","i","n","e">>,
    <<"f","d","a"," ","a","p","p","r","o","v","a","l">>,
    <<"c","l","i","n","i","c","a","l"," ","t","r","i","a","l">>,
    <<"c","a","n","c","e","r">>,
    <<"t","r","e","a","t","m","e","n","t">>,
    <<"h","o","s","p","i","t","a","l">>,
    <<"m","e","d","i","c","a","l">>,
    <<"h","e","a","l","t","h","c","a","r","e">>,
    <<"i","n","s","u","r","a","n","c","e">>,
    <<"g","e","n","e","t","i","c","s">>,
    <<"m","e","d","i","c","i","n","e">>,
    <<"c","d","c">>,
    <<"w","h","o">> >>

\* lines 530-534
world_keywords == <<
    <<"r","u","s","s","i","a">>,
    <<"u","k","r","a","i","n","e">>,
    <<"c","h","i","n","a">>,
    <<"i","r","a","n">>,
    <<"n","o","r","t","h"," ","k","o","r","e","a">>,
    <<"i","s","r","a","e","l">>,
    <<"p","a","l","e","s","t","i","n","e">>,
    <<"n","a","t","o">>,
    <<"u","n","i","t","e","d"," ","n","a","t","i","o","n","s">>,
    <<"t","r","a","d","e"," ","w","a","r">>,
    <<"s","a","n","c","t","i","o","n","s">>,
    <<"e","m","b","a","r","g","o">>,
    <<"r","e","f","u","g","e","e">>,
    <<"m","i","g","r","a","t","i","o","n">>,
    <<"b","o","r","d","e","r">>,
    <<"d","i","p","l","o","m","a","t","i","c">>,
    <<"e","m","b","a","s","s","y">> >>

\* the count when a loop stops at its first hit
matches_once(keywords, headline, description) ==
    IF \E k \in 1..Len(keywords) :
           contains(headline, keywords[k]) \/ contains(description, keywords[k])
    THEN 1 ELSE 0

\* the number of list entries found in the headline or the description: the
\* loops of lines 492-538 add their weight once per entry
matches(keywords, headline, description) ==
    Cardinality({k \in 1..Len(keywords) :
        contains(headline, keywords[k]) \/ contains(description, keywords[k])})

\* dict.get('published_at', '') is modelled by what fromisoformat makes of it:
\* kind "none" (None), "empty" (''), "utc" (an ISO timestamp with Z or an
\* offset, `hour` hours after the model's epoch), "naive" (an ISO timestamp
\* without offset: aware - naive raises TypeError, swallowed by line 553),
\* "garbage" (fromisoformat raises ValueError, swallowed too).
Published(kind, hour) == [kind |-> kind, hour |-> hour]

NotPublished == Published("empty", 0)

published_of(article) ==
    IF "published_at" \in DOMAIN article THEN article.published_at ELSE NotPublished

\* the bonus given up to and including 6 and 12 hours
recency_bonus_inclusive(published_at, clock) ==
    IF published_at.kind # "utc" THEN 0
    ELSE IF clock - published_at.hour <= 6 THEN 4
    ELSE IF clock - published_at.hour <= 12 THEN 2
    ELSE 0

\* lines 541-554: +2.0 below 6 hours of age, +1.0 below 12
recency_bonus(published_at, clock) ==
    IF published_at.kind # "utc" THEN 0
    ELSE IF clock - published_at.hour < 6 THEN 4
    ELSE IF clock - published_at.hour < 12 THEN 2
    ELSE 0

\* the bonus without its half point
length_bonus_whole(content) ==
    IF Len(content) > 200 THEN 2
    ELSE 0

\* lines 557-561
length_bonus(content) ==
    IF Len(content) > 500 THEN 2
    ELSE IF Len(content) > 200 THEN 1
    ELSE 0

\* lines 450-563.  None.lower() raises AttributeError, len(None) TypeError.
calculate_article_priority(article, clock) ==
    IF \/ get(article, "headline") = None
       \/ get(article, "description") = None
       \/ get(article, "source") = None
       \/ get(article, "content") = None
    THEN [raised |-> TRUE, score |-> 0]
    ELSE
        LET headline == lower(get(article, "headline"))
            description == lower(get(article, "description"))
            source == lower(get(article, "source"))
        IN  [raised |-> FALSE,
             score |->
                 (IF any_in(trusted_sources, source) THEN 20 ELSE 0)
                 + (IF matches(breaking_keywords, headline, description) > 0
                    THEN 16 ELSE 0)
                 + 12 * matches(high_impact_keywords, headline, description)
                 + 10 * matches(market_keywords, headline, description)
                 + 8 * matches(tech_keywords, headline, description)
                 + 8 * matches(health_keywords, headline, description)
                 + 6 * matches(world_keywords, headline, description)
                 + recency_bonus(published_of(article), clock)
                 + length_bonus(get(article, "content"))]

\* ---------------------------------------------------------- collect_all_news

\* line 658: max_count=25
MaxCount == 25

\* tuple comparison: key a sorts strictly before key b
key_before(a, b) ==
    \E i \in 1..Len(a) : a[i] < b[i] /\ \A j \in 1..(i - 1) : a[j] = b[j]

\* the position an ascending sort gives that puts equal keys in reverse order
sorted_position_unstable(keys, i) ==
    1 + Cardinality({j \in 1..Len(keys) :
            \/ key_before(keys[j], keys[i])
            \/ (keys[j] = keys[i] /\ j > i)})

\* the position (1 = first) a stable ascending sort gives entry i of `keys`
sorted_position(keys, i) ==
    1 + Cardinality({j \in 1..Len(keys) :
            \/ key_before(keys[j], keys[i])
            \/ (keys[j] = keys[i] /\ j < i)})

\* list.sort / sort_values: the entries of `items` in the stable order of `keys`
stable_sort(items, keys) ==
    [r \in 1..Len(items) |->
        items[CHOOSE i \in 1..Len(items) : sorted_position(keys, i) = r]]

\* lines 565-596: the max_count best articles, highest score first (list.sort
\* is stable, also with reverse=True)
select_high_priority_articles(arts, max_count, clock) ==
    LET results == [i \in 1..Len(arts) |-> calculate_article_priority(arts[i], clock)]
        keys == [i \in 1..Len(arts) |-> <<0 - results[i].score>>]
        ordered == stable_sort(arts, keys)
    IN  IF arts = <<>> THEN [raised |-> FALSE, value |-> <<>>]
        ELSE IF \E i \in 1..Len(arts) : results[i].raised
        THEN [raised |-> TRUE, value |-> <<>>]
        ELSE [raised |-> FALSE,
              value |-> SubSeq(ordered, 1, IF Len(arts) < max_count
                                           THEN Len(arts) ELSE max_count)]

\* lines 608-616 and fillna(7)
priority_order(category) ==
    IF category = Finance THEN 1
    ELSE IF category = Technology THEN 2
    ELSE IF category = GovernmentPolicy THEN 3
    ELSE IF category = Economy THEN 4
    ELSE IF category = Health THEN 5
    ELSE IF category = World THEN 6
    ELSE 7

\* line 623: priority ascending, then published_at descending, a missing
\* published_at last
row_key(row) ==
    <<priority_order(row.category),
      IF row.published_at.kind = "utc" THEN 0 ELSE 1,
      IF row.published_at.kind = "utc" THEN 0 - row.published_at.hour ELSE 0>>

\* lines 599-628, on the rows [index, row] of the frame
sort_articles_by_priority(rows) ==
    stable_sort(rows, [i \in 1..Len(rows) |-> row_key(rows[i].row)])

\* pd.DataFrame(high_priority_articles): row i carries the index label i - 1
DataFrame(dicts) == [i \in 1..Len(dicts) |-> [index |-> i - 1, row |-> dicts[i]]]

\* a or b
or_else(a, b) == IF a = None \/ a = <<>> THEN b ELSE a

\* lines 641-647: art.get(key) is None for a missing key
article_of(art) ==
    [headline |-> art.title,
     content |-> or_else(art.content, art.description),
     url |-> art.url,
     source |-> art.source.name,
     published_at |-> art.publishedAt]

\* lines 638-650: art['source'] = null makes art.get('source', {}).get('name')
\* raise; the handler of line 649 ends the loop and keeps what was built
RECURSIVE build_articles(_, _)
build_articles(raw, i) ==
    IF i > Len(raw) \/ raw[i].source.null THEN <<>>
    ELSE <<article_of(raw[i])>> \o build_articles(raw, i + 1)

\* lines 669-673
with_categories(dicts, labels) ==
    [i \in 1..Len(dicts) |->
        [k \in DOMAIN dicts[i] \cup {"category"} |->
            IF k = "category"
            THEN (IF i <= Len(labels) THEN labels[i] ELSE Miscellaneous)
            ELSE dicts[i][k]]]

\* ------------------------------------------------------------ fact_checker

\* src/fact_checker.py lines 8-12
FACT_KEYWORDS == <<
    <<"a","n","n","o","u","n","c","e","d">>,
    <<"r","e","p","o","r","t","e","d">>,
    <<"s","a","i","d">>,
    <<"c","o","n","f","i","r","m","e","d">>,
    <<"r","e","v","e","a","l","e","d">>,
    <<"s","t","a","t","e","d">>,
    <<"a","c","c","o","r","d","i","n","g"," ","t","o">>,
    <<"s","o","u","r","c","e","s"," ","s","a","y">>,
    <<"o","f","f","i","c","i","a","l","s"," ","s","a","y">>,
    <<"e","x","p","e","r","t","s"," ","s","a","y">>,
    <<"s","t","u","d","y"," ","s","h","o","w","s">>,
    <<"r","e","s","e","a","r","c","h"," ","i","n","d","i","c","a","t","e","s">>,
    <<"d","a","t","a"," ","s","h","o","w","s">>,
    <<"s","t","a","t","i","s","t","i","c","s"," ","s","h","o","w">> >>

\* src/fact_checker.py lines 15-19
UNVERIFIED_KEYWORDS == <<
    <<"a","l","l","e","g","e","d","l","y">>,
    <<"r","e","p","o","r","t","e","d","l","y">>,
    <<"r","u","m","o","r","e","d">>,
    <<"s","p","e","c","u","l","a","t","i","o","n">>,
    <<"u","n","c","o","n","f","i","r","m","e","d">>,
    <<"a","n","o","n","y","m","o","u","s"," ","s","o","u","r","c","e","s">>,
    <<"u","n","n","a","m","e","d"," ","s","o","u","r","c","e","s">>,
    <<"s","o","u","r","c","e","s"," ","f","a","m","i","l","i","a","r"," ","w","i","t","h">>,
    <<"m","a","y">>,
    <<"m","i","g","h","t">>,
    <<"c","o","u","l","d">>,
    <<"p","o","s","s","i","b","l","y">>,
    <<"p","o","t","e","n","t","i","a","l","l","y">> >>

\* line 103 and lines 125, 179: the two values of fact_check_status
FactChecked == "Fact-checked"

Unverified == "Unverified"

\* str(value)
str(value) == IF value = None THEN <<"N","o","n","e">> ELSE value

Digits == {"0", "1", "2", "3", "4", "5", "6", "7", "8", "9"}

\* \w
WordChars == Digits \cup set(UpperCase) \cup set(LowerCase) \cup {"_"}

\* \b in front of position i
word_boundary(text, i) ==
    (i > 1 /\ text[i - 1] \in WordChars) # (i <= Len(text) /\ text[i] \in WordChars)

\* the number of digits from position i on
RECURSIVE digit_run(_, _)
digit_run(text, i) ==
    IF i > Len(text) \/ text[i] \notin Digits THEN 0
    ELSE 1 + digit_run(text, i + 1)

\* \b\d{1,2}[/-]\d{1,2}[/-]\d{2,4}\b matched at position i: the position after
\* the match, 0 without a match
numeric_date_at(text, i) ==
    LET d1 == digit_run(text, i)
        s1 == i + d1
        d2 == digit_run(text, s1 + 1)
        s2 == s1 + 1 + d2
        d3 == digit_run(text, s2 + 1)
        end == s2 + 1 + d3
    IN  IF /\ word_boundary(text, i)
           /\ d1 \in 1..2
           /\ s1 <= Len(text) /\ text[s1] \in {"/", "-"}
           /\ d2 \in 1..2
           /\ s2 <= Len(text) /\ text[s2] \in {"/", "-"}
           /\ d3 \in 2..4
           /\ word_boundary(text, end)
        THEN end ELSE 0

\* \b\d{4}\b matched at position i
year_at(text, i) ==
    IF /\ word_boundary(text, i)
       /\ digit_run(text, i) >= 4
       /\ word_boundary(text, i + 4)
    THEN i + 4 ELSE 0

\* line 77: date_pattern matched at position i, the first alternative first
date_at(text, i) ==
    IF numeric_date_at(text, i) > 0 THEN numeric_date_at(text, i) ELSE year_at(text, i)

\* line 78: re.findall(date_pattern, text), scanning from position i
RECURSIVE find_dates(_, _)
find_dates(text, i) ==
    IF i > Len(text) THEN <<>>
    ELSE IF date_at(text, i) > 0
    THEN <<SubSeq(text, i, date_at(text, i) - 1)>> \o find_dates(text, date_at(text, i))
    ELSE find_dates(text, i + 1)

\* lines 58-92.  Only facts['dates'] is read afterwards (lines 140-155 compare
\* the numbers without recording anything), so the other lists are left out.
extract_facts(text) ==
    [dates |-> IF text = <<>> THEN <<>> ELSE find_dates(text, 1)]

\* the dates of all the fact records, concatenated
RECURSIVE all_dates(_, _)
all_dates(facts_list, i) ==
    IF i > Len(facts_list) THEN <<>>
    ELSE facts_list[i].dates \o all_dates(facts_list, i + 1)

\* a list that also reports conflicting numbers
check_fact_consistency_numbers(facts_list) ==
    /\ Len(facts_list) >= 2
    /\ \/ Cardinality(set(all_dates(facts_list, 1))) > 1
       \/ Cardinality(UNION {set(facts_list[k].numbers) : k \in 1..Len(facts_list)}) > 1

\* lines 130-157: TRUE when the returned list of inconsistencies is not empty.
\* Lines 147-155 gather the numbers and add nothing to the list.
check_fact_consistency(facts_list) ==
    /\ Len(facts_list) >= 2
    /\ Cardinality(set(all_dates(facts_list, 1))) > 1
    /\ Len(all_dates(facts_list, 1)) > 1

\* the length of the common run of a from i and of b from j, up to ahi and bhi
RECURSIVE common_run(_, _, _, _, _, _)
common_run(a, b, i, j, ahi, bhi) ==
    IF i >= ahi \/ j >= bhi \/ a[i] # b[j] THEN 0
    ELSE 1 + common_run(a, b, i + 1, j + 1, ahi, bhi)

\* SequenceMatcher.find_longest_match without junk: the longest block common to
\* a[alo..ahi-1] and b[blo..bhi-1], the earliest in a and then the earliest in b
find_longest_match(a, b, alo, ahi, blo, bhi) ==
    LET runs == [i \in alo..(ahi - 1) |->
                    [j \in blo..(bhi - 1) |-> common_run(a, b, i, j, ahi, bhi)]]
        size == SetMax({runs[i][j] : i \in alo..(ahi - 1), j \in blo..(bhi - 1)})
        besti == SetMin({i \in alo..(ahi - 1) :
                            \E j \in blo..(bhi - 1) : runs[i][j] = size})
        bestj == SetMin({j \in blo..(bhi - 1) : runs[besti][j] = size})
    IN  [i |-> besti, j |-> bestj, size |-> size]

\* SequenceMatcher.get_matching_blocks: the total size of the matching blocks
RECURSIVE matching_size(_, _, _, _, _, _)
matching_size(a, b, alo, ahi, blo, bhi) ==
    IF alo >= ahi \/ blo >= bhi THEN 0
    ELSE LET m == find_longest_match(a, b, alo, ahi, blo, bhi)
         IN  IF m.size = 0 THEN 0
             ELSE m.size
                  + matching_size(a, b, alo, m.i, blo, m.j)
                  + matching_size(a, b, m.i + m.size, ahi, m.j + m.size, bhi)

\* lines 46-48: SequenceMatcher(None, a, b).ratio() > 0.6, the ratio being
\* 2.0 * matches / (len(a) + len(b)) and 1.0 for two empty strings
ratio_above_threshold(a, b) ==
    \/ Len(a) + Len(b) = 0
    \/ 10 * matching_size(a, b, 1, Len(a) + 1, 1, Len(b) + 1) > 3 * (Len(a) + Len(b))

\* lines 38-50: the inner loop from row j on
RECURSIVE similar_inner(_, _, _, _)
similar_inner(rows, i, j, acc) ==
    IF j > Len(rows) THEN acc
    ELSE IF rows[j].index \in acc.processed THEN similar_inner(rows, i, j + 1, acc)
    ELSE IF ratio_above_threshold(lower(str(get(rows[i].row, "headline"))),
                                  lower(str(get(rows[j].row, "headline"))))
    THEN similar_inner(rows, i, j + 1,
                       [group |-> Append(acc.group, rows[j].index),
                        processed |-> acc.processed \cup {rows[j].index}])
    ELSE similar_inner(rows, i, j + 1, acc)

\* lines 30-53: the outer loop from row i on
RECURSIVE similar_outer(_, _, _, _)
similar_outer(rows, i, groups, processed) ==
    IF i > Len(rows) THEN groups
    ELSE IF rows[i].index \in processed THEN similar_outer(rows, i + 1, groups, processed)
    ELSE LET acc == similar_inner(rows, i, 1,
                        [group |-> <<rows[i].index>>,
                         processed |-> processed \cup {rows[i].index}])
         IN  similar_outer(rows, i + 1,
                           IF Len(acc.group) > 1 THEN Append(groups, acc.group)
                           ELSE groups,
                           acc.processed)

\* the groups without the `processed` set: every row gathers its peers
find_similar_articles_unprocessed(rows) ==
    LET peers(i) == SelectSeq([j \in 1..Len(rows) |-> j],
                              LAMBDA j : j # i /\ ratio_above_threshold(
                                  lower(str(get(rows[i].row, "headline"))),
                                  lower(str(get(rows[j].row, "headline")))))
        group(i) == <<rows[i].index>> \o [k \in 1..Len(peers(i)) |-> rows[peers(i)[k]].index]
    IN  SelectSeq([i \in 1..Len(rows) |-> group(i)], LAMBDA g : Len(g) > 1)

\* lines 22-55: the groups, as lists of index labels
find_similar_articles(rows) == similar_outer(rows, 1, <<>>, {})

\* df[column] = value
set_column(rows, column, value) ==
    [k \in 1..Len(rows) |->
        [index |-> rows[k].index,
         row |-> [c \in DOMAIN rows[k].row \cup {column} |->
                     IF c = column THEN value ELSE rows[k].row[c]]]]

\* df.iloc[idx, df.columns.get_loc(column)] = value: idx is a row position
set_cell(rows, idx, column, value) ==
    [rows EXCEPT ![idx + 1].row[column] = value]

\* df.iloc[idx] for every idx of the list
set_cells(rows, idxs, column, value) ==
    [k \in 1..Len(rows) |->
        IF \E g \in 1..Len(idxs) : idxs[g] + 1 = k
        THEN [rows[k] EXCEPT !.row[column] = value]
        ELSE rows[k]]

\* lines 115 and 170
article_text(row) == str(get(row, "headline")) \o <<" ">> \o str(get(row, "content"))

\* lines 108-126, from group g on.  df.iloc[idx] raises IndexError for an idx
\* that is no row position.
RECURSIVE consistency_loop(_, _, _)
consistency_loop(rows, groups, g) ==
    IF g > Len(groups) THEN [raised |-> FALSE, value |-> rows]
    ELSE IF \E k \in 1..Len(groups[g]) : groups[g][k] >= Len(rows)
    THEN [raised |-> TRUE, value |-> rows]
    ELSE IF check_fact_consistency(
                [k \in 1..Len(groups[g]) |->
                    extract_facts(article_text(rows[groups[g][k] + 1].row))])
    THEN consistency_loop(set_cells(rows, groups[g], "fact_check_status", Unverified),
                          groups, g + 1)
    ELSE consistency_loop(rows, groups, g + 1)

\* lines 95-128
check_article_consistency(rows) ==
    IF rows = <<>> THEN [raised |-> FALSE, value |-> rows]
    ELSE consistency_loop(set_column(rows, "fact_check_status", FactChecked),
                          find_similar_articles(rows), 1)

\* sum(1 for keyword in keywords if keyword in text_lower)
keyword_count(keywords, text_lower) ==
    Cardinality({k \in 1..Len(keywords) : contains(text_lower, keywords[k])})

\* lines 174-178
has_unverified_claims(row) ==
    LET text_lower == lower(article_text(row))
        unverified_count == keyword_count(UNVERIFIED_KEYWORDS, text_lower)
        fact_count == keyword_count(FACT_KEYWORDS, text_lower)
    IN  unverified_count > fact_count /\ unverified_count > 0

\* lines 169-180, from row k on: idx is the index label of the row
RECURSIVE unverified_loop(_, _)
unverified_loop(rows, k) ==
    IF k > Len(rows) THEN [raised |-> FALSE, value |-> rows]
    ELSE IF ~has_unverified_claims(rows[k].row) THEN unverified_loop(rows, k + 1)
    ELSE IF rows[k].index >= Len(rows) THEN [raised |-> TRUE, value |-> rows]
    ELSE unverified_loop(
             set_cell(rows, rows[k].index, "fact_check_status", Unverified), k + 1)

\* lines 160-182
flag_unverified_claims(rows) ==
    IF rows = <<>> THEN [raised |-> FALSE, value |-> rows]
    ELSE unverified_loop(rows, 1)

\* lines 185-207
fact_check_articles(rows) ==
    IF rows = <<>> THEN [raised |-> FALSE, value |-> rows]
    ELSE IF check_article_consistency(rows).raised
    THEN [raised |-> TRUE, value |-> rows]
    ELSE flag_unverified_claims(check_article_consistency(rows).value)

\* ------------------------------------------------------------ bill_watcher

\* src/bill_watcher.py lines 7-11
BILL_KEYWORDS == <<
    <<"b","i","l","l">>,
    <<"l","e","g","i","s","l","a","t","i","o","n">>,
    <<"l","a","w">>,
    <<"a","c","t">>,
    <<"r","e","s","o","l","u","t","i","o","n">>,
    <<"a","m","e","n","d","m","e","n","t">>,
    <<"p","a","s","s","e","d">>,
    <<"a","p","p","r","o","v","e","d">>,
    <<"v","o","t","e","d">>,
    <<"h","o","u","s","e">>,
    <<"s","e","n","a","t","e">>,
    <<"c","o","n","g","r","e","s","s">>,
    <<"l","e","g","i","s","l","a","t","i","v","e">>,
    <<"l","e","g","i","s","l","a","t","u","r","e">>,
    <<"f","e","d","e","r","a","l">>,
    <<"g","o","v","e","r","n","m","e","n","t">> >>

\* the keyword sets with `both` tried first
BRANCH_KEYWORDS_both_first == <<
    [branch |-> "both",
     keywords |-> <<
    <<"c","o","n","g","r","e","s","s"," ","p","a","s","s","e","d">>,
    <<"c","o","n","g","r","e","s","s"," ","a","p","p","r","o","v","e","d">>,
    <<"b","o","t","h"," ","c","h","a","m","b","e","r","s">>,
    <<"h","o","u","s","e"," ","a","n","d"," ","s","e","n","a","t","e">> >>],
    [branch |-> "house",
     keywords |-> <<
    <<"h","o","u","s","e"," ","o","f"," ","r","e","p","r","e","s","e","n","t","a","t","i","v",
      "e","s">>,
    <<"h","o","u","s","e"," ","p","a","s","s","e","d">>,
    <<"h","o","u","s","e"," ","a","p","p","r","o","v","e","d">>,
    <<"h","o","u","s","e"," ","v","o","t","e","d">> >>],
    [branch |-> "senate",
     keywords |-> <<
    <<"s","e","n","a","t","e"," ","p","a","s","s","e","d">>,
    <<"s","e","n","a","t","e"," ","a","p","p","r","o","v","e","d">>,
    <<"s","e","n","a","t","e"," ","v","o","t","e","d">>,
    <<"s","e","n","a","t","o","r","s">> >>] >>

\* lines 14-18, in the order of the dict
BRANCH_KEYWORDS == <<
    [branch |-> "house",
     keywords |-> <<
    <<"h","o","u","s","e"," ","o","f"," ","r","e","p","r","e","s","e","n","t","a","t","i","v",
      "e","s">>,
    <<"h","o","u","s","e"," ","p","a","s","s","e","d">>,
    <<"h","o","u","s","e"," ","a","p","p","r","o","v","e","d">>,
    <<"h","o","u","s","e"," ","v","o","t","e","d">> >>],
    [branch |-> "senate",
     keywords |-> <<
    <<"s","e","n","a","t","e"," ","p","a","s","s","e","d">>,
    <<"s","e","n","a","t","e"," ","a","p","p","r","o","v","e","d">>,
    <<"s","e","n","a","t","e"," ","v","o","t","e","d">>,
    <<"s","e","n","a","t","o","r","s">> >>],
    [branch |-> "both",
     keywords |-> <<
    <<"c","o","n","g","r","e","s","s"," ","p","a","s","s","e","d">>,
    <<"c","o","n","g","r","e","s","s"," ","a","p","p","r","o","v","e","d">>,
    <<"b","o","t","h"," ","c","h","a","m","b","e","r","s">>,
    <<"h","o","u","s","e"," ","a","n","d"," ","s","e","n","a","t","e">> >>] >>

\* lines 21-50, in the order of the dict
SECTOR_KEYWORDS == <<
    [sector |-> "AI/Technology",
     keywords |-> <<
    <<"a","r","t","i","f","i","c","i","a","l"," ","i","n","t","e","l","l","i","g","e","n","c",
      "e">>,
    <<"A","I">>,
    <<"m","a","c","h","i","n","e"," ","l","e","a","r","n","i","n","g">>,
    <<"a","u","t","o","m","a","t","i","o","n">>,
    <<"r","o","b","o","t","i","c","s">>,
    <<"s","e","m","i","c","o","n","d","u","c","t","o","r">>,
    <<"c","h","i","p">>,
    <<"c","o","m","p","u","t","i","n","g">>,
    <<"s","o","f","t","w","a","r","e">>,
    <<"d","i","g","i","t","a","l">>,
    <<"c","y","b","e","r">> >>],
    [sector |-> "Renewable Energy",
     keywords |-> <<
    <<"r","e","n","e","w","a","b","l","e"," ","e","n","e","r","g","y">>,
    <<"s","o","l","a","r">>,
    <<"w","i","n","d">>,
    <<"c","l","e","a","n"," ","e","n","e","r","g","y">>,
    <<"g","r","e","e","n"," ","e","n","e","r","g","y">>,
    <<"e","l","e","c","t","r","i","c"," ","v","e","h","i","c","l","e">>,
    <<"E","V">>,
    <<"b","a","t","t","e","r","y">>,
    <<"s","u","s","t","a","i","n","a","b","i","l","i","t","y">>,
    <<"c","l","i","m","a","t","e">> >>],
    [sector |-> "Healthcare",
     keywords |-> <<
    <<"h","e","a","l","t","h","c","a","r","e">>,
    <<"m","e","d","i","c","a","l">>,
    <<"p","h","a","r","m","a","c","e","u","t","i","c","a","l">>,
    <<"d","r","u","g">>,
    <<"t","r","e","a","t","m","e","n","t">>,
    <<"i","n","s","u","r","a","n","c","e">>,
    <<"m","e","d","i","c","a","r","e">>,
    <<"m","e","d","i","c","a","i","d">>,
    <<"h","o","s","p","i","t","a","l">>,
    <<"d","o","c","t","o","r">> >>],
    [sector |-> "Infrastructure",
     keywords |-> <<
    <<"i","n","f","r","a","s","t","r","u","c","t","u","r","e">>,
    <<"c","o","n","s","t","r","u","c","t","i","o","n">>,
    <<"r","o","a","d","s">>,
    <<"b","r","i","d","g","e","s">>,
    <<"t","r","a","n","s","p","o","r","t","a","t","i","o","n">>,
    <<"h","i","g","h","w","a","y">>,
    <<"r","a","i","l","w","a","y">>,
    <<"a","i","r","p","o","r","t">>,
    <<"p","o","r","t">>,
    <<"b","u","i","l","d","i","n","g">> >>],
    [sector |-> "Finance",
     keywords |-> <<
    <<"b","a","n","k","i","n","g">>,
    <<"f","i","n","a","n","c","e">>,
    <<"f","i","n","a","n","c","i","a","l">>,
    <<"r","e","g","u","l","a","t","i","o","n">>,
    <<"S","E","C">>,
    <<"f","e","d","e","r","a","l"," ","r","e","s","e","r","v","e">>,
    <<"t","a","x">>,
    <<"r","e","v","e","n","u","e">>,
    <<"b","u","d","g","e","t">>,
    <<"s","p","e","n","d","i","n","g">>,
    <<"d","e","f","i","c","i","t">> >>],
    [sector |-> "Defense",
     keywords |-> <<
    <<"d","e","f","e","n","s","e">>,
    <<"m","i","l","i","t","a","r","y">>,
    <<"w","e","a","p","o","n","s">>,
    <<"n","a","t","i","o","n","a","l"," ","s","e","c","u","r","i","t","y">>,
    <<"v","e","t","e","r","a","n","s">>,
    <<"a","r","m","e","d"," ","f","o","r","c","e","s">>,
    <<"d","e","f","e","n","s","e"," ","s","p","e","n","d","i","n","g">>,
    <<"m","i","l","i","t","a","r","y"," ","b","u","d","g","e","t">> >>],
    [sector |-> "Education",
     keywords |-> <<
    <<"e","d","u","c","a","t","i","o","n">>,
    <<"s","c","h","o","o","l">>,
    <<"u","n","i","v","e","r","s","i","t","y">>,
    <<"c","o","l","l","e","g","e">>,
    <<"s","t","u","d","e","n","t"," ","l","o","a","n">>,
    <<"f","e","d","e","r","a","l"," ","a","i","d">>,
    <<"s","c","h","o","l","a","r","s","h","i","p">>,
    <<"r","e","s","e","a","r","c","h"," ","f","u","n","d","i","n","g">> >>] >>

\* lines 53-81
COMPANIES_BY_SECTOR == [sector \in {SECTOR_KEYWORDS[s].sector : s \in 1..7} |->
    CASE sector = "AI/Technology" ->
             <<"NVDA", "MSFT", "GOOGL", "META", "AAPL", "AMD", "INTC", "TSM",
               "ORCL", "CRM", "ADBE", "NFLX", "AMZN", "TSLA">>
      [] sector = "Renewable Energy" ->
             <<"TSLA", "ENPH", "PLUG", "SEDG", "RUN", "SPWR", "FSLR", "NEE",
               "GE", "GEVO", "BLDP", "BE", "NIO", "XPEV", "LI">>
      [] sector = "Healthcare" ->
             <<"JNJ", "PFE", "UNH", "ABBV", "MRK", "TMO", "ABT", "DHR",
               "LLY", "BMY", "AMGN", "GILD", "CVS", "ANTM">>
      [] sector = "Infrastructure" ->
             <<"CAT", "DE", "CEMEX", "VMC", "MLM", "URI", "TEX", "FLR",
               "J", "ACM", "PWR", "EME", "MTZ">>
      [] sector = "Finance" ->
             <<"JPM", "BAC", "WFC", "GS", "MS", "C", "USB", "PNC",
               "TFC", "COF", "AXP", "BLK", "SCHW", "SPGI">>
      [] sector = "Defense" ->
             <<"LMT", "RTX", "BA", "GD", "NOC", "LHX", "TDG", "AJRD",
               "KTOS", "AIR", "TDG", "HII", "LDOS">>
      [] sector = "Education" ->
             <<"APEI", "LOPE", "STRA", "ZVO", "LAUR", "EDU", "TAL", "GHC">>]

\* [A-Z] under re.IGNORECASE, [A-Za-z]
Letters == set(UpperCase) \cup set(LowerCase)

\* the number of characters of the class from position i on
char_run(text, i, class) ==
    LET stops == {j \in i..Len(text) : text[j] \notin class}
    IN  IF stops = {} THEN max(Len(text) - i + 1, 0) ELSE SetMin(stops) - i

\* \s+\d+ matched at position i: the position after the match, 0 without one
number_tail_at(text, i) ==
    LET blanks == char_run(text, i, Whitespace)
        digits == digit_run(text, i + blanks)
    IN  IF blanks >= 1 /\ digits >= 1 THEN i + blanks + digits ELSE 0

\* pattern p of bill_patterns (lines 107-112, re.IGNORECASE) matched at
\* position i: the position after the match, 0 without one
bill_pattern_at(text, i, p) ==
    LET is(k, class) == k <= Len(text) /\ text[k] \in class
        word == char_run(text, i + 1, Letters)
        dot == IF is(i + 1 + word, {"."}) THEN 1 ELSE 0
    IN  IF ~is(i, Letters) THEN 0
        ELSE IF p = 1
        THEN IF is(i + 1, {"."}) /\ is(i + 2, {"R", "r"}) /\ is(i + 3, {"."})
             THEN number_tail_at(text, i + 4) ELSE 0
        ELSE IF p = 2
        THEN IF is(i + 1, {"."}) THEN number_tail_at(text, i + 2) ELSE 0
        ELSE IF p = 3
        THEN IF is(i + 1, Letters) /\ digit_run(text, i + 2) >= 1
             THEN i + 2 + digit_run(text, i + 2) ELSE 0
        ELSE IF word >= 1 THEN number_tail_at(text, i + 1 + word + dot) ELSE 0

\* lines 114-118: matches[0] of the first pattern that matches, None otherwise
RECURSIVE find_bill_number(_, _)
find_bill_number(text, p) ==
    LET starts == {i \in 1..Len(text) : bill_pattern_at(text, i, p) > 0}
        first == SetMin(starts)
    IN  IF p > 4 THEN None
        ELSE IF starts = {} THEN find_bill_number(text, p + 1)
        ELSE SubSeq(text, first, bill_pattern_at(text, first, p) - 1)

\* lines 121-124: the first branch one of whose keywords is in the text
RECURSIVE find_branch(_, _)
find_branch(text_lower, b) ==
    IF b > Len(BRANCH_KEYWORDS) THEN "None"
    ELSE IF any_in(BRANCH_KEYWORDS[b].keywords, text_lower)
    THEN BRANCH_KEYWORDS[b].branch
    ELSE find_branch(text_lower, b + 1)

\* "([^"]+)" matched at position i: the length of the group, 0 without a match
quoted_at(text, i) ==
    LET inner == char_run(text, i + 1, {text[k] : k \in 1..Len(text)} \ {"\""})
    IN  IF text[i] = "\"" /\ inner >= 1 /\ i + 1 + inner <= Len(text)
        THEN inner ELSE 0

\* [A-Z][A-Za-z\s]+ followed by the suffix, matched at position i: the
\* position of the last character of the greedy match, 0 without a match
suffixed_at(text, i, suffix) ==
    LET body == char_run(text, i + 1, Letters \cup Whitespace)
        ends == {j \in (i + 2)..(i + body - Len(suffix) + 1) :
                    SubSeq(text, j, j + Len(suffix) - 1) = suffix}
    IN  IF text[i] \in set(UpperCase) /\ ends # {}
        THEN SetMax(ends) + Len(suffix) - 1 ELSE 0

\* lines 127-138: matches[0] of the first pattern of name_patterns that
\* matches, None otherwise
find_bill_name(text) ==
    LET quoted == {i \in 1..Len(text) : quoted_at(text, i) > 0}
        named(suffix) == {i \in 1..Len(text) : suffixed_at(text, i, suffix) > 0}
        match(suffix) ==
            SubSeq(text, SetMin(named(suffix)), suffixed_at(text, SetMin(named(suffix)), suffix))
    IN  IF quoted # {}
        THEN SubSeq(text, SetMin(quoted) + 1, SetMin(quoted) + quoted_at(text, SetMin(quoted)))
        ELSE IF named(<<"A","c","t">>) # {} THEN match(<<"A","c","t">>)
        ELSE IF named(<<"B","i","l","l">>) # {} THEN match(<<"B","i","l","l">>)
        ELSE IF named(<<"L","a","w">>) # {} THEN match(<<"L","a","w">>)
        ELSE None

\* lines 152-156
explanation_keywords == <<
    <<"f","u","n","d","s">>,
    <<"f","u","n","d","i","n","g">>,
    <<"a","l","l","o","c","a","t","e","s">>,
    <<"p","r","o","v","i","d","e","s">>,
    <<"e","s","t","a","b","l","i","s","h","e","s">>,
    <<"r","e","g","u","l","a","t","e","s">>,
    <<"r","e","g","u","l","a","t","i","o","n","s">>,
    <<"r","e","q","u","i","r","e","s">>,
    <<"m","a","n","d","a","t","e","s">>,
    <<"a","u","t","h","o","r","i","z","e","s">>,
    <<"c","r","e","a","t","e","s">>,
    <<"e","x","p","a","n","d","s">>,
    <<"r","e","d","u","c","e","s">>,
    <<"i","n","c","r","e","a","s","e","s">>,
    <<"d","e","c","r","e","a","s","e","s">> >>

\* s[:n]
cut(s, n) == SubSeq(s, 1, IF Len(s) < n THEN Len(s) ELSE n)

\* lines 147-168
generate_bill_explanation(text) ==
    LET sentences == split_on(text, ".")
        relevant == {k \in 1..Len(sentences) :
                        any_in(explanation_keywords, lower(sentences[k]))}
    IN  IF relevant # {}
        THEN cut(strip(sentences[SetMin(relevant)]), 200) \o <<".",".",".">>
        ELSE <<"B","i","l","l"," ","d","e","t","a","i","l","s"," ","a","n","d"," ","f","u","n","d","i",
          "n","g"," ","i","n","f","o","r","m","a","t","i","o","n"," ","a","v","a","i","l","a","b",
          "l","e"," ","f","r","o","m"," ","o","f","f","i","c","i","a","l"," ","s","o","u","r","c",
          "e","s",".">>

\* lines 177-179, from sector s on
RECURSIVE sectors_from(_, _)
sectors_from(text_lower, s) ==
    IF s > Len(SECTOR_KEYWORDS) THEN <<>>
    ELSE (IF any_in(SECTOR_KEYWORDS[s].keywords, text_lower)
          THEN <<SECTOR_KEYWORDS[s].sector>> ELSE <<>>)
         \o sectors_from(text_lower, s + 1)

\* lines 170-181
identify_affected_sectors(text) == sectors_from(lower(text), 1)

is_bill_text_ungated(text) ==
    /\ text # <<>>
    /\ text # None

\* the gate of lines 89-96
is_bill_text(text) ==
    /\ text # <<>>
    /\ text # None
    /\ any_in(BILL_KEYWORDS, lower(text))

\* lines 84-145.  `found` is FALSE where the code returns None.
bill_dict(text, gated, bill_number, bill_name) ==
    LET found == bill_number # None \/ bill_name # None
    IN  [found |-> found,
         bill_name |-> bill_name,
         bill_number |-> bill_number,
         branch_passed |-> IF gated THEN find_branch(lower(text), 1) ELSE "None",
         explanation |-> IF found THEN generate_bill_explanation(text) ELSE None,
         sectors_affected |-> IF found THEN identify_affected_sectors(text) ELSE <<>>]

bill_patterns_gated(text, gated) ==
    bill_dict(text, gated,
              IF gated THEN find_bill_number(text, 1) ELSE None,
              IF gated THEN find_bill_name(text) ELSE None)

extract_bill_info(text) == bill_patterns_gated(text, is_bill_text(text))

\* lines 190-192
RECURSIVE companies_of(_, _)
companies_of(sectors, s) ==
    IF s > Len(sectors) THEN <<>>
    ELSE (IF sectors[s] \in DOMAIN COMPANIES_BY_SECTOR
          THEN COMPANIES_BY_SECTOR[sectors[s]] ELSE <<>>)
         \o companies_of(sectors, s + 1)

\* the distinct elements of the list, by first occurrence
RECURSIVE distinct(_)
distinct(seq) ==
    IF seq = <<>> THEN <<>>
    ELSE LET front == distinct(SubSeq(seq, 1, Len(seq) - 1))
         IN  IF seq[Len(seq)] \in set(front) THEN front ELSE Append(front, seq[Len(seq)])

\* list(set(companies)): the order of a set of str depends on the hash seed of
\* the process; `order` in 0..MaxHashOrder picks one of the orders, the list by
\* first occurrence rotated by that share of its length
set_order(seq, order) ==
    LET n == Len(distinct(seq))
        shift == (order * n) \div (MaxHashOrder + 1)
    IN  [i \in 1..n |-> distinct(seq)[((i - 1 + shift) % n) + 1]]

\* the list without its cap
get_affected_companies_uncapped(sectors, max_companies, order) ==
    set_order(companies_of(sectors, 1), order)

\* lines 184-196
get_affected_companies(sectors, max_companies, order) ==
    cut(set_order(companies_of(sectors, 1), order), max_companies)

\* line 224: the default of max_companies
DefaultMaxCompanies == 10

\* lines 222-237: the entry appended for the row labelled idx, if any
bill_impact_of(idx, row, info, order) ==
    IF info.found
    THEN <<[article_index |-> idx,
            headline |-> row.headline,
            bill_name |-> info.bill_name,
            bill_number |-> info.bill_number,
            branch_passed |-> info.branch_passed,
            explanation |-> info.explanation,
            sectors_affected |-> info.sectors_affected,
            companies_affected |->
                get_affected_companies(info.sectors_affected,
                                       DefaultMaxCompanies, order)]>>
    ELSE <<>>

\* lines 218-242, from row k of gov_articles on
RECURSIVE bill_impacts_from(_, _, _)
bill_impacts_from(gov_articles, k, order) ==
    IF k > Len(gov_articles) THEN <<>>
    ELSE bill_impact_of(gov_articles[k].index, gov_articles[k].row,
                        extract_bill_info(article_text(gov_articles[k].row)), order)
         \o bill_impacts_from(gov_articles, k + 1, order)

\* lines 245-253.  Line 250 uses the index label of the article as a row
\* position; df.iloc raises IndexError for a position that is no row.
mark_bill_impacts(rows, impacts) ==
    LET marked == {impacts[b].article_index + 1 : b \in 1..Len(impacts)}
        blank == set_column(rows, "bill_impact", "None")
    IN  IF \E p \in marked : p > Len(rows)
        THEN [raised |-> TRUE, df |-> rows, bill_impacts |-> impacts]
        ELSE [raised |-> FALSE,
              df |-> [k \in 1..Len(rows) |->
                         IF k \in marked
                         THEN [blank[k] EXCEPT !.row["bill_impact"] = "Bill Impact"]
                         ELSE blank[k]],
              bill_impacts |-> impacts]

\* lines 199-253
analyze_bill_impact(rows, order) ==
    LET gov_articles == SelectSeq(rows, LAMBDA r : r.row.category = GovernmentPolicy)
    IN  IF rows = <<>> \/ gov_articles = <<>>
        THEN [raised |-> FALSE, df |-> rows, bill_impacts |-> <<>>]
        ELSE mark_bill_impacts(rows, bill_impacts_from(gov_articles, 1, order))

\* -------------------------------------------------------------- summarizer

\* src/summarizer.py lines 21-46, for the answer `reply` to the request:
\* [raised, value]
summarize_and_neutralize(text, key, reply) ==
    IF ~key THEN [raised |-> TRUE, value |-> None]
    ELSE IF text = None \/ text = <<>> \/ Len(strip(text)) < 40
    THEN [raised |-> FALSE, value |-> None]
    ELSE IF reply.reply = "text" THEN [raised |-> FALSE, value |-> strip(reply.text)]
    ELSE [raised |-> FALSE, value |-> None]

\* lines 116-122, from line k on
RECURSIVE numbered_summaries(_, _)
numbered_summaries(lines, k) ==
    IF k > Len(lines) THEN <<>>
    ELSE LET line == strip(lines[k])
             rest == IF \E i \in 1..Len(line) : line[i] = "."
                     THEN strip(SubSeq(line, 1 + SetMin({i \in 1..Len(line) : line[i] = "."}),
                                       Len(line)))
                     ELSE line
         IN  (IF line # <<>> /\ line[1] \in Digits /\ rest # <<>>
              THEN <<rest>> ELSE <<>>)
             \o numbered_summaries(lines, k + 1)

\* lines 109-128
parse_batch_summaries(batch_response, expected_count) ==
    LET summaries == numbered_summaries(split_on(batch_response, "\n"), 1)
    IN  [i \in 1..expected_count |->
            IF i <= Len(summaries) THEN summaries[i] ELSE None]

\* lines 49-107: the request is sent whether or not the key is set
summarize_articles_batch(rows, reply) ==
    IF rows = <<>> THEN [raised |-> FALSE, value |-> rows]
    ELSE IF reply.reply # "text" THEN [raised |-> TRUE, value |-> rows]
    ELSE LET summaries == parse_batch_summaries(reply.text, Len(rows))
         IN  [raised |-> FALSE,
              value |-> [i \in 1..Len(rows) |->
                            [index |-> rows[i].index,
                             row |-> [c \in DOMAIN rows[i].row \cup {"summary"} |->
                                         IF c = "summary" THEN summaries[i]
                                         ELSE rows[i].row[c]]]]]

\* lines 130-141: an exception of summarize_and_neutralize is not caught
summarize_articles_individual(rows, key, reply) ==
    LET text(row) == or_else(get(row, "content"), get(row, "headline"))
        summaries == [i \in 1..Len(rows) |->
                         summarize_and_neutralize(text(rows[i].row), key, reply)]
    IN  IF \E i \in 1..Len(rows) : summaries[i].raised
        THEN [raised |-> TRUE, value |-> rows]
        ELSE [raised |-> FALSE,
              value |-> [i \in 1..Len(rows) |->
                            [index |-> rows[i].index,
                             row |-> [c \in DOMAIN rows[i].row \cup {"summary"} |->
                                         IF c = "summary" THEN summaries[i].value
                                         ELSE rows[i].row[c]]]]]

\* line 158: df.head(5)
fallback_rows(rows) == cut(rows, 5)

\* lines 144-158
summarize_articles(rows, key, batch_reply, single_reply) ==
    IF rows = <<>> THEN [raised |-> FALSE, value |-> rows]
    ELSE IF ~summarize_articles_batch(rows, batch_reply).raised
    THEN summarize_articles_batch(rows, batch_reply)
    ELSE summarize_articles_individual(fallback_rows(rows), key, single_reply)

\* ---------------------------------------------------------- email_composer

\* src/email_composer.py line 205
priority_categories == <<Technology, Health, GovernmentPolicy, Economy, Finance, World, Space>>

\* lines 208-220 and 229-240: the headlines of one section
section(rows, category, limit) ==
    LET shown == cut(SelectSeq(rows, LAMBDA r : r.row.category = category), limit)
    IN  [k \in 1..Len(shown) |-> shown[k].row.headline]

\* lines 172-255: what the page shows, section by section
create_html_email(rows, impacts) ==
    [total_articles |-> Len(rows),
     unverified |-> Cardinality({k \in 1..Len(rows) : rows[k].row.fact_check_status = Unverified}),
     sections |-> [c \in 1..Len(priority_categories) |->
                      section(rows, priority_categories[c], 15)],
     bills |-> [b \in 1..Len(impacts) |->
                   or_else(impacts[b].bill_name, impacts[b].bill_number)],
     miscellaneous |-> section(rows, Miscellaneous, 20)]

\* -------------------------------------------------------------------- main

\* src/main.py: the stage that follows `stage` when it printed `outcome`; the
\* handlers of lines 26-28, 34-36, 42-44, 59-61, 83-85, 102-104 and 115-117
\* return
after_stage_resuming(stage, outcome) ==
    CASE stage = "collect" -> "summarize"
      [] stage = "summarize" -> "fact_check"
      [] stage = "fact_check" -> "bill"
      [] stage = "bill" -> "compose"
      [] stage = "compose" -> "send"
      [] stage = "send" -> "completed"

after_stage(stage, outcome) ==
    IF outcome \in {"failed", "empty"} THEN "returned"
    ELSE CASE stage = "collect" -> "summarize"
           [] stage = "summarize" -> "fact_check"
           [] stage = "fact_check" -> "bill"
           [] stage = "bill" -> "compose"
           [] stage = "compose" -> "send"
           [] stage = "send" -> "completed"

\* ------------------------------------------------- inputs of the dedup runs

FedAgain == <<"F","e","d"," ","r","a","i","s","e","s"," ","r","a","t","e","s"," ","a","g","a","i","n">>

FedToday == <<"F","e","d"," ","r","a","i","s","e","s"," ","r","a","t","e","s"," ","t","o","d","a","y">>

TaxesToday == <<"F","e","d"," ","r","a","i","s","e","s"," ","t","a","x","e","s"," ","t","o","d","a","y">>

FedAgainShouted == <<" ","F","E","D"," ","R","A","I","S","E","S"," ","R","A","T","E","S"," ","A","G","A","I",
          "N"," ">>

FedShort == <<"F","e","d"," ","r","a","i","s","e","s"," ","r","a","t","e","s">>

Storm == <<"S","t","o","r","m"," ","h","i","t","s"," ","c","o","a","s","t">>

Blank == <<" "," ">>

FedQuarter == <<"F","e","d"," ","r","a","i","s","e","s"," ","i","n","t","e","r","e","s","t"," ","r","a",
          "t","e","s"," ","b","y"," ","0",".","2","5","%">>

FederalReserveQuarter == <<"F","e","d","e","r","a","l"," ","R","e","s","e","r","v","e"," ","r","a","i","s","e","s",
          " ","i","n","t","e","r","e","s","t"," ","r","a","t","e","s"," ","0",".","2","5","%">>

Url1 == <<"u","1">>

Url2 == <<"u","2">>

Url1Padded == <<"u","1"," ">>

Entry(h, u) == [headline |-> h, url |-> u]

DedupPool ==
    {Entry(FedAgain, Url1), Entry(FedToday, Url2), Entry(TaxesToday, <<>>),
     Entry(Storm, Url1), Entry(Storm, Url1Padded),
     Entry(<<>>, <<>>), Entry(Blank, <<>>),
     Entry(FedAgainShouted, Url2), Entry(FedShort, <<>>),
     Entry(FedQuarter, Url1), Entry(FederalReserveQuarter, Url2),
     Entry(None, Url1)}

DedupInputs ==
    UNION {[1..n -> DedupPool] : n \in 0..MaxArticles}

\* ------------------------------------------------------ the dedup runs

DedupIdle ==
    /\ articles = <<>>
    /\ unique_articles = <<>>
    /\ kept = <<>>
    /\ unique_again = <<>>
    /\ dedup_status = "idle"

NoRequest == [key |-> FALSE, reply |-> "raises", text |-> <<>>]

CatIdle ==
    /\ batch = <<>>
    /\ gemini = NoRequest
    /\ fallback_label = <<>>
    /\ ai_label = <<>>
    /\ batch_labels = <<>>
    /\ cat_status = "idle"

PrioIdle ==
    /\ now = 0
    /\ scored = <<>>
    /\ evaluations = <<>>
    /\ keyword_trial = <<>>
    /\ selection = <<>>

CollectIdle ==
    /\ newsapi_articles = <<>>
    /\ all_articles = <<>>
    /\ collected_unique = <<>>
    /\ high_priority_articles = <<>>
    /\ df = <<>>
    /\ collect_status = "idle"

FactIdle ==
    /\ fact_input = <<>>
    /\ fact_result = <<>>
    /\ fact_status = "idle"

BillIdle ==
    /\ hash_order = 0
    /\ bill_text = <<>>
    /\ bill_info = <<>>
    /\ bill_input = <<>>
    /\ bill_result = <<>>
    /\ bill_status = "idle"

MainIdle ==
    /\ main_pc = "idle"
    /\ stdout = <<>>
    /\ df_summarized = <<>>
    /\ df_fact_checked = <<>>
    /\ df_with_bills = <<>>
    /\ bill_impacts = <<>>
    /\ html_email = <<>>

InitDedup ==
    /\ articles \in DedupInputs
    /\ unique_articles = <<>>
    /\ kept = <<>>
    /\ unique_again = <<>>
    /\ dedup_status = "input"
    /\ CatIdle
    /\ PrioIdle
    /\ CollectIdle
    /\ FactIdle
    /\ BillIdle
    /\ MainIdle

\* unique_articles = remove_duplicates(all_articles)
RemoveDuplicates ==
    /\ dedup_status = "input"
    /\ LET r == remove_duplicates(articles)
       IN  /\ unique_articles' = r.value
           /\ kept' = r.kept
           /\ dedup_status' = IF r.raised THEN "raised" ELSE "returned"
    /\ UNCHANGED <<articles, unique_again, cat_vars, prio_vars, collect_vars, fact_vars, bill_vars, main_vars>>

\* remove_duplicates(unique_articles)
RemoveDuplicatesAgain ==
    /\ dedup_status = "returned"
    /\ unique_again' = remove_duplicates(unique_articles).value
    /\ dedup_status' = "rerun"
    /\ UNCHANGED <<articles, unique_articles, kept, cat_vars, prio_vars, collect_vars, fact_vars, bill_vars, main_vars>>

NextDedup ==
    \/ RemoveDuplicates
    \/ RemoveDuplicatesAgain

SpecDedup == InitDedup /\ [][NextDedup]_vars

\* ------------------------------------------------- the categorizer runs

Story(h, d, c) == [headline |-> h, description |-> d, content |-> c]

\* the articles the fallback is run on: every headline with every description
FallbackPool ==
    {Story(h, d, <<>>) :
        h \in {<<>>, <<" ">>, <<"P","r","i","n","c","e"," ","w","e","d","s">>, <<"D","e","f","e","c","t","o","r"," ","f","l","e","e","s">>, <<"H","e"," ","s","a","i","d"," ","n","o">>,
               <<"M","I","C","R","O","S","O","F","T"," ","b","u","y","s"," ","r","i","v","a","l">>, <<"H","o","s","p","i","t","a","l"," ","b","a","n","k"," ","m","e","r","g","e","r">>, <<"L","o","r","e","m"," ","i","p","s","u","m">>,
               <<"N","A","S","A"," ","r","o","c","k","e","t">>, <<"R","o","y","a","l"," ","v","i","s","i","t">>, <<"Q","u","i","e","t"," ","d","a","y">>, <<"M","&","A">>, <<"B","a","n","k"," ","r","u","n">>},
        d \in {<<>>, <<"S","e","n","a","t","e"," ","v","o","t","e">>, <<"O","l","d"," ","p","r","i","n","c","e">>, <<"L","o","r","e","m">>, <<"A","I">>}}

\* the articles the classifier is asked about: every text field is a string, as
\* it is for an article that came through remove_duplicates and the scorer
CatPool ==
    {Story(<<>>, <<>>, <<>>),
     Story(<<"M","I","C","R","O","S","O","F","T"," ","b","u","y","s"," ","r","i","v","a","l">>, <<>>, <<>>),
     Story(<<"P","r","i","n","c","e"," ","w","e","d","s">>, <<>>, <<>>),
     Story(<<"L","o","r","e","m"," ","i","p","s","u","m">>, <<>>, <<>>),
     Story(<<>>, <<"S","e","n","a","t","e"," ","v","o","t","e">>, <<>>),
     Story(<<" ">>, <<>>, <<"S","e","n","a","t","e"," ","v","o","t","e">>)}

Replies ==
    {<<"T","e","c","h","n","o","l","o","g","y">>, <<"\"","F","i","n","a","n","c","e","\"","\n">>, <<"I","t"," ","i","s"," ","a","b","o","u","t"," ","s","o","f","t","w","a","r","e">>, <<"e","c","o","n","o","m","i","c"," ","p","o","l","i","c","y">>,
     <<"u","n","k","n","o","w","n">>, <<>>, <<"T","e","c","h","n","o","l","o","g","y","\n","f","i","n","a","n","c","e">>, <<"W","o","r","l","d","\n","\n","'","S","p","a","c","e","'","\n","H","e","a","l","t","h">>,
     <<"n","/","a","\n","S","t","o","c","k"," ","m","a","r","k","e","t">>, <<" ","\n">>}

GeminiOutcomes ==
    {[key |-> FALSE, reply |-> "text", text |-> <<"T","e","c","h","n","o","l","o","g","y">>],
     [key |-> TRUE, reply |-> "raises", text |-> <<>>],
     [key |-> TRUE, reply |-> "error", text |-> <<>>],
     [key |-> TRUE, reply |-> "empty", text |-> <<>>]}
    \cup {[key |-> TRUE, reply |-> "text", text |-> t] : t \in Replies}

InitFallback ==
    /\ batch \in {<<a>> : a \in FallbackPool}
    /\ gemini = NoRequest
    /\ fallback_label = <<>>
    /\ ai_label = <<>>
    /\ batch_labels = <<>>
    /\ cat_status = "input"
    /\ DedupIdle
    /\ PrioIdle
    /\ CollectIdle
    /\ FactIdle
    /\ BillIdle
    /\ MainIdle

\* categorize_article_fallback(article)
CategorizeFallback ==
    /\ cat_status = "input"
    /\ fallback_label' = categorize_article_fallback(batch[1])
    /\ cat_status' = "fallback"
    /\ UNCHANGED <<batch, gemini, ai_label, batch_labels, dedup_vars, prio_vars, collect_vars, fact_vars, bill_vars, main_vars>>

NextFallback == CategorizeFallback

SpecFallback == InitFallback /\ [][NextFallback]_vars

InitCat ==
    /\ batch \in UNION {[1..n -> CatPool] : n \in 0..MaxBatch}
    /\ gemini \in GeminiOutcomes
    /\ fallback_label = <<>>
    /\ ai_label = <<>>
    /\ batch_labels = <<>>
    /\ cat_status = "input"
    /\ DedupIdle
    /\ PrioIdle
    /\ CollectIdle
    /\ FactIdle
    /\ BillIdle
    /\ MainIdle

\* categorize_article(article) on the first article
CategorizeWithAI ==
    /\ cat_status = "input"
    /\ batch # <<>>
    /\ ai_label' = categorize_article_with_ai(batch[1], gemini)
    /\ cat_status' = "single"
    /\ UNCHANGED <<batch, gemini, fallback_label, batch_labels, dedup_vars, prio_vars, collect_vars, fact_vars, bill_vars, main_vars>>

\* categories = categorize_articles_batch(high_priority_articles)
CategorizeBatch ==
    /\ cat_status \in {"input", "single"}
    /\ cat_status = "input" => batch = <<>>
    /\ batch_labels' = categorize_articles_batch(batch, gemini)
    /\ cat_status' = "batch"
    /\ UNCHANGED <<batch, gemini, fallback_label, ai_label, dedup_vars, prio_vars, collect_vars, fact_vars, bill_vars, main_vars>>

NextCat ==
    \/ CategorizeWithAI
    \/ CategorizeBatch

SpecCat == InitCat /\ [][NextCat]_vars

\* ------------------------------------------------------ the scorer runs

\* len(content) is all the scorer reads of the content
Filler(n) == [i \in 1..n |-> "x"]

Item(h, src, c, p) ==
    [headline |-> h, source |-> src, content |-> c, published_at |-> p]

\* the hour the clock starts at
FirstHour == 4

PrioPool ==
    {Item(h, src, c, p) :
        h \in {FedAgain, <<"B","r","e","a","k","i","n","g",":"," ","S","e","n","a","t","e"," ","v","o","t","e"," ",
          "o","n"," ","A","I">>, Storm},
        src \in {<<"R","e","u","t","e","r","s">>, <<"A"," ","b","l","o","g">>},
        c \in {<<>>, Filler(201), Filler(501)},
        p \in {NotPublished, Published("utc", 0), Published("utc", 20),
               Published("naive", 0), Published("garbage", 0)}}
    \cup
    {[headline |-> h, description |-> d, source |-> <<"A","P"," ","v","i","a"," ","R","e","u","t","e","r","s">>,
      content |-> Filler(200), published_at |-> p] :
        h \in {<<"V","a","c","c","i","n","e"," ","e","a","r","n","i","n","g","s"," ","r","i","s","e"," ",
          "i","n"," ","C","h","i","n","a">>, Storm},
        d \in {<<>>, <<"U","R","G","E","N","T"," ","u","p","d","a","t","e",":"," ","F","e","d"," ","a","n","d",
          " ","S","E","C"," ","m","e","e","t"," ","o","n"," ","i","n","f","l","a","t","i","o","n">>},
        p \in {Published("utc", 0), Published("naive", 0)}}

InitPrio ==
    /\ scored \in PrioPool
    /\ now = FirstHour
    /\ evaluations = <<>>
    /\ keyword_trial = <<>>
    /\ selection = <<>>
    /\ DedupIdle
    /\ CatIdle
    /\ CollectIdle
    /\ FactIdle
    /\ BillIdle
    /\ MainIdle

\* priority_score = calculate_article_priority(article)
Evaluate ==
    /\ Len(evaluations) < MaxEvaluations
    /\ evaluations' = Append(evaluations,
            [at |-> now, result |-> calculate_article_priority(scored, now)])
    /\ UNCHANGED <<now, scored, keyword_trial, selection,
                   dedup_vars, cat_vars, collect_vars, fact_vars, bill_vars, main_vars>>

\* time passes between two evaluations
Tick ==
    /\ now < MaxClock
    /\ now' = now + 1
    /\ UNCHANGED <<scored, evaluations, keyword_trial, selection,
                   dedup_vars, cat_vars, collect_vars, fact_vars, bill_vars, main_vars>>

NextPrio ==
    \/ Evaluate
    \/ Tick

SpecPrio == InitPrio /\ [][NextPrio]_vars

\* ------------------------------------------- the scorer on an added keyword

Pair(h, d, src) == [headline |-> h, description |-> d, source |-> src]

\* the articles a keyword is added to: with and without high-impact keywords
KeywordPool ==
    {Pair(h, d, <<"R","e","u","t","e","r","s">>) :
        h \in {Storm, <<"S","e","n","a","t","e"," ","v","o","t","e">>, <<"F","E","D","E","R","A","L"," ","R","E","S","E","R","V","E"," ","h","o","l","d","s">>, <<>>},
        d \in {<<>>, <<"A","p","p","l","e"," ","e","a","r","n","i","n","g","s">>}}

\* the article with `keyword` appended, after a space, to one text field
with_keyword(article, field, keyword) ==
    [article EXCEPT ![field] = @ \o <<" ">> \o keyword]

InitKeyword ==
    /\ scored \in KeywordPool
    /\ now = FirstHour
    /\ evaluations = <<>>
    /\ keyword_trial = <<>>
    /\ selection = <<>>
    /\ DedupIdle
    /\ CatIdle
    /\ CollectIdle
    /\ FactIdle
    /\ BillIdle
    /\ MainIdle

\* calculate_article_priority on the article and on the article with a
\* high-impact keyword added to its headline or its description
EvaluateWithKeyword ==
    /\ keyword_trial = <<>>
    /\ \E k \in 1..Len(high_impact_keywords), field \in {"headline", "description"} :
           keyword_trial' =
               [keyword |-> high_impact_keywords[k],
                field |-> field,
                before |-> calculate_article_priority(scored, now),
                after |-> calculate_article_priority(
                              with_keyword(scored, field, high_impact_keywords[k]), now)]
    /\ UNCHANGED <<now, scored, evaluations, selection,
                   dedup_vars, cat_vars, collect_vars, fact_vars, bill_vars, main_vars>>

NextKeyword == EvaluateWithKeyword

SpecKeyword == InitKeyword /\ [][NextKeyword]_vars

\* ------------------------------------------------------- the selection runs

\* articles with equal and with different scores
SelectPool ==
    {Pair(Storm, <<>>, <<"R","e","u","t","e","r","s">>), Pair(<<"Q","u","i","e","t"," ","d","a","y">>, <<>>, <<"R","e","u","t","e","r","s">>),
     Pair(FedAgain, <<>>, <<"R","e","u","t","e","r","s">>), Pair(Storm, <<>>, <<"A"," ","b","l","o","g">>)}

InitSelect ==
    /\ \E arts \in UNION {[1..n -> SelectPool] : n \in 0..MaxSelect} :
       \E n \in 0..MaxSelect :
           selection = [articles |-> arts, max_count |-> n, done |-> FALSE,
                        result |-> [raised |-> FALSE, value |-> <<>>]]
    /\ now = FirstHour
    /\ scored = <<>>
    /\ evaluations = <<>>
    /\ keyword_trial = <<>>
    /\ DedupIdle
    /\ CatIdle
    /\ CollectIdle
    /\ FactIdle
    /\ BillIdle
    /\ MainIdle

\* select_high_priority_articles(articles, max_count)
Select ==
    /\ selection # <<>>
    /\ ~selection.done
    /\ selection' =
           [selection EXCEPT
               !.done = TRUE,
               !.result = select_high_priority_articles(
                              selection.articles, selection.max_count, now)]
    /\ UNCHANGED <<now, scored, evaluations, keyword_trial,
                   dedup_vars, cat_vars, collect_vars, fact_vars, bill_vars, main_vars>>

NextSelect == Select

SpecSelect == InitSelect /\ [][NextSelect]_vars

\* ------------------------------------------------ the collect_all_news runs

Source(name) == [null |-> FALSE, name |-> name]

NullSource == [null |-> TRUE, name |-> None]

Missing == Published("none", 0)

Raw(t, c, d, u, s, p) ==
    [title |-> t, content |-> c, description |-> d, url |-> u, source |-> s,
     publishedAt |-> p]

\* what NewsAPI may return: complete entries, and entries with one field missing
RawPool ==
    {Raw(FedAgain, Filler(201), <<>>, Url1, Source(<<"R","e","u","t","e","r","s">>), Published("utc", 0)),
     Raw(Storm, <<"L","o","r","e","m"," ","i","p","s","u","m">>, <<>>, Url2, Source(<<"A"," ","b","l","o","g">>), Published("utc", 3)),
     Raw(None, <<"L","o","r","e","m"," ","i","p","s","u","m">>, <<>>, Url1, Source(<<"R","e","u","t","e","r","s">>), Published("utc", 0)),
     Raw(Storm, <<"L","o","r","e","m"," ","i","p","s","u","m">>, <<>>, None, Source(<<"R","e","u","t","e","r","s">>), Published("utc", 0)),
     Raw(Storm, <<"L","o","r","e","m"," ","i","p","s","u","m">>, <<>>, Url1, Source(None), Published("utc", 0)),
     Raw(Storm, <<"L","o","r","e","m"," ","i","p","s","u","m">>, <<>>, Url1, NullSource, Published("utc", 0)),
     Raw(Storm, None, None, Url1, Source(<<"R","e","u","t","e","r","s">>), Published("utc", 0)),
     Raw(<<"S","e","n","a","t","e"," ","v","o","t","e">>, None, <<"L","o","r","e","m"," ","i","p","s","u","m">>, Url2, Source(<<"R","e","u","t","e","r","s">>), Published("utc", 0)),
     Raw(<<"B","a","n","k"," ","r","u","n">>, <<"L","o","r","e","m"," ","i","p","s","u","m">>, <<>>, Url2, Source(<<"R","e","u","t","e","r","s">>), Missing)}

InitCollect ==
    /\ newsapi_articles \in UNION {[1..n -> RawPool] : n \in 0..MaxRaw}
    /\ all_articles = <<>>
    /\ collected_unique = <<>>
    /\ high_priority_articles = <<>>
    /\ df = <<>>
    /\ collect_status = "fetched"
    /\ gemini \in {NoRequest, [key |-> TRUE, reply |-> "text", text |-> <<"T","e","c","h","n","o","l","o","g","y">>]}
    /\ batch = <<>>
    /\ fallback_label = <<>>
    /\ ai_label = <<>>
    /\ batch_labels = <<>>
    /\ cat_status = "idle"
    /\ now = FirstHour
    /\ scored = <<>>
    /\ evaluations = <<>>
    /\ keyword_trial = <<>>
    /\ selection = <<>>
    /\ DedupIdle
    /\ FactIdle
    /\ BillIdle
    /\ MainIdle

\* lines 638-650
BuildArticles ==
    /\ collect_status = "fetched"
    /\ all_articles' = build_articles(newsapi_articles, 1)
    /\ collect_status' = "built"
    /\ UNCHANGED <<newsapi_articles, collected_unique, high_priority_articles, df,
                   dedup_vars, cat_vars, prio_vars, fact_vars, bill_vars, main_vars>>

\* line 655
DedupStage ==
    /\ collect_status = "built"
    /\ LET r == remove_duplicates(all_articles)
       IN  /\ collected_unique' = r.value
           /\ collect_status' = IF r.raised THEN "raised" ELSE "deduped"
    /\ UNCHANGED <<newsapi_articles, all_articles, high_priority_articles, df,
                   dedup_vars, cat_vars, prio_vars, fact_vars, bill_vars, main_vars>>

\* line 658
SelectStage ==
    /\ collect_status = "deduped"
    /\ LET r == select_high_priority_articles(collected_unique, MaxCount, now)
       IN  /\ high_priority_articles' = r.value
           /\ collect_status' = IF r.raised THEN "raised" ELSE "selected"
    /\ UNCHANGED <<newsapi_articles, all_articles, collected_unique, df,
                   dedup_vars, cat_vars, prio_vars, fact_vars, bill_vars, main_vars>>

\* lines 662-673: the handler of line 664 runs the fallback once more, which
\* raises again when it raised inside categorize_articles_batch
CategorizeStage ==
    /\ collect_status = "selected"
    /\ LET labels == categorize_articles_batch(high_priority_articles, gemini)
       IN  IF labels = Raised
           THEN /\ collect_status' = "raised"
                /\ UNCHANGED high_priority_articles
           ELSE /\ collect_status' = "categorized"
                /\ high_priority_articles' =
                       with_categories(high_priority_articles, labels)
    /\ UNCHANGED <<newsapi_articles, all_articles, collected_unique, df,
                   dedup_vars, cat_vars, prio_vars, fact_vars, bill_vars, main_vars>>

\* lines 676-678
ReturnFrame ==
    /\ collect_status = "categorized"
    /\ df' = sort_articles_by_priority(DataFrame(high_priority_articles))
    /\ collect_status' = "returned"
    /\ UNCHANGED <<newsapi_articles, all_articles, collected_unique,
                   high_priority_articles, dedup_vars, cat_vars, prio_vars, fact_vars, bill_vars, main_vars>>

NextCollect ==
    \/ BuildArticles
    \/ DedupStage
    \/ SelectStage
    \/ CategorizeStage
    \/ ReturnFrame

SpecCollect == InitCollect /\ [][NextCollect]_vars

\* ------------------------------------------------------- the sort alone

Categorized(h, cat, p) == [headline |-> h, category |-> cat, published_at |-> p]

\* articles after lines 669-673: a Space and a World article, Finance and
\* Miscellaneous ones of two ages, one without publishedAt
SortPool ==
    {Categorized(<<"R","o","c","k","e","t"," ","l","a","u","n","c","h">>, Space, Published("utc", 0)),
     Categorized(<<"Q","u","i","e","t"," ","d","a","y">>, Miscellaneous, Published("utc", 3)),
     Categorized(<<"S","l","o","w"," ","d","a","y">>, Miscellaneous, Published("utc", 0)),
     Categorized(<<"F","e","d"," ","c","u","t","s"," ","r","a","t","e","s">>, Finance, Published("utc", 0)),
     Categorized(<<"B","a","n","k"," ","r","u","n">>, Finance, Published("utc", 3)),
     Categorized(<<"S","t","o","r","m"," ","h","i","t","s"," ","c","o","a","s","t">>, World, Missing)}

\* lines 669-676: the categorized articles, before the frame is built
InitSort ==
    /\ high_priority_articles \in UNION {[1..n -> SortPool] : n \in 0..MaxSortRows}
    /\ newsapi_articles = <<>>
    /\ all_articles = <<>>
    /\ collected_unique = <<>>
    /\ df = <<>>
    /\ collect_status = "categorized"
    /\ DedupIdle
    /\ CatIdle
    /\ PrioIdle
    /\ FactIdle
    /\ BillIdle
    /\ MainIdle

NextSort == ReturnFrame

SpecSort == InitSort /\ [][NextSort]_vars

\* ------------------------------------------------- the fact-checking runs

Doc(h, c, cat) ==
    [headline |-> h, content |-> c, category |-> cat, published_at |-> NotPublished]

\* labelled articles: two close headlines with different years, one with a
\* year of its own, one with an unverified cue, one with a cue of each kind
FactPool ==
    {Doc(<<"F","e","d"," ","c","u","t","s"," ","r","a","t","e","s">>, <<"O","n"," ","2","0","2","4">>, Finance),
     Doc(<<"F","e","d"," ","c","u","t"," ","r","a","t","e","s">>, <<"I","n"," ","2","0","2","5">>, Finance),
     Doc(<<"F","e","d"," ","c","u","t"," ","r","a","t","e","s">>, <<"I","n"," ","2","0","2","5">>, Miscellaneous),
     Doc(<<"S","t","o","r","m"," ","2","0","2","3">>, <<>>, Miscellaneous),
     Doc(<<"S","t","o","r","m"," ","2","0","2","3">>, <<>>, Finance),
     Doc(<<"D","e","a","l"," ","m","a","y"," ","c","l","o","s","e">>, <<>>, Technology),
     Doc(<<"Q","u","i","e","t"," ","d","a","y">>, <<"I","t"," ","c","o","u","l","d"," ","r","a","i","n",","," ","o","f","f","i","c","i","a",
          "l","s"," ","s","a","y">>, Miscellaneous)}

\* remove_duplicates leaves no two articles with the same headline
FactDicts ==
    {dicts \in UNION {[1..n -> FactPool] : n \in 0..MaxRows} :
        \A i, j \in 1..Len(dicts) : i # j => dicts[i].headline # dicts[j].headline}

\* the frame is the one collect_all_news returns: sorted, with its index labels
InitFact ==
    /\ \E dicts \in FactDicts :
           fact_input = sort_articles_by_priority(DataFrame(dicts))
    /\ fact_result = <<>>
    /\ fact_status = "input"
    /\ DedupIdle
    /\ CatIdle
    /\ PrioIdle
    /\ CollectIdle
    /\ BillIdle
    /\ MainIdle

\* df_fact_checked = fact_checker.fact_check_articles(df)
FactCheck ==
    /\ fact_status = "input"
    /\ fact_result' = fact_check_articles(fact_input)
    /\ fact_status' = "checked"
    /\ UNCHANGED <<fact_input, dedup_vars, cat_vars, prio_vars, collect_vars, bill_vars, main_vars>>

NextFact == FactCheck

SpecFact == InitFact /\ [][NextFact]_vars

\* ------------------------------------------ the runs of find_similar_articles

\* three headlines close to one another, two close to each other, one apart
GroupPool ==
    {Doc(<<"F","e","d"," ","c","u","t","s"," ","r","a","t","e","s">>, <<>>, Finance),
     Doc(<<"F","e","d"," ","c","u","t"," ","r","a","t","e","s">>, <<>>, Miscellaneous),
     Doc(<<"F","e","d"," ","c","u","t","s"," ","r","a","t","e">>, <<>>, Finance),
     Doc(<<"S","t","o","r","m"," ","h","i","t","s"," ","c","o","a","s","t">>, <<>>, World),
     Doc(<<"S","t","o","r","m"," ","h","i","t"," ","t","h","e"," ","c","o","a","s","t">>, <<>>, Miscellaneous),
     Doc(<<"Q","u","i","e","t"," ","d","a","y">>, <<>>, Technology)}

GroupDicts ==
    {dicts \in UNION {[1..n -> GroupPool] : n \in 0..MaxGroupRows} :
        \A i, j \in 1..Len(dicts) : i # j => dicts[i].headline # dicts[j].headline}

InitSimilar ==
    /\ \E dicts \in GroupDicts :
           fact_input = sort_articles_by_priority(DataFrame(dicts))
    /\ fact_result = <<>>
    /\ fact_status = "input"
    /\ DedupIdle
    /\ CatIdle
    /\ PrioIdle
    /\ CollectIdle
    /\ BillIdle
    /\ MainIdle

\* similar_groups = find_similar_articles(df)
FindSimilarArticles ==
    /\ fact_status = "input"
    /\ fact_result' = find_similar_articles(fact_input)
    /\ fact_status' = "grouped"
    /\ UNCHANGED <<fact_input, dedup_vars, cat_vars, prio_vars, collect_vars, bill_vars, main_vars>>

NextSimilar == FindSimilarArticles

SpecSimilar == InitSimilar /\ [][NextSimilar]_vars

\* ----------------------------------------- the runs of check_fact_consistency

\* the dicts of extract_facts, by their dates and numbers
FactSets ==
    {[dates |-> d, numbers |-> n] :
        d \in {<<>>, <<<<"2","0","2","4">>>>, <<<<"2","0","2","5">>>>, <<<<"2","0","2","4">>, <<"2","0","2","4">>>>,
               <<<<"2","0","2","4">>, <<"2","0","2","5">>>>},
        n \in {<<>>, <<<<"5","%">>>>, <<<<"7","%">>>>}}

InitConsistency ==
    /\ fact_input \in UNION {[1..n -> FactSets] : n \in 0..MaxFacts}
    /\ fact_result = <<>>
    /\ fact_status = "input"
    /\ DedupIdle
    /\ CatIdle
    /\ PrioIdle
    /\ CollectIdle
    /\ BillIdle
    /\ MainIdle

\* inconsistencies = check_fact_consistency(facts_list)
CheckFactConsistency ==
    /\ fact_status = "input"
    /\ fact_result' = check_fact_consistency(fact_input)
    /\ fact_status' = "compared"
    /\ UNCHANGED <<fact_input, dedup_vars, cat_vars, prio_vars, collect_vars, bill_vars, main_vars>>

NextConsistency == CheckFactConsistency

SpecConsistency == InitConsistency /\ [][NextConsistency]_vars

\* ---------------------------------------------------- the bill watcher runs

\* article texts: a bill with number, quoted name and two sectors; no
\* legislative word; a number without a legislative word; a number and a
\* branch; a legislative word without number or name; a name only; a number
\* with words of the house and of both chambers; a name with both chambers;
\* a name with the upper-case sector keywords; a name with the sector of the
\* shortest company list; a name with the sector whose list repeats a ticker
CleanEnergyText == <<"H",".","R","."," ","1","2","3","4",","," ","t","h","e"," ","\"","C","l","e","a","n"," ",
          "E","n","e","r","g","y"," ","A","c","t",",","\""," ","w","a","s"," ","p","a","s","s","e",
          "d"," ","b","y"," ","t","h","e"," ","S","e","n","a","t","e","."," ","I","t"," ","a","l",
          "l","o","c","a","t","e","s"," ","f","u","n","d","i","n","g"," ","f","o","r"," ","s","o",
          "l","a","r"," ","a","n","d"," ","E","V"," ","i","n","f","r","a","s","t","r","u","c","t",
          "u","r","e",".">>

EarningsText == <<"M","i","c","r","o","s","o","f","t"," ","r","e","l","e","a","s","e","s"," ","n","e","w",
          " ","e","a","r","n","i","n","g","s"," ","r","e","p","o","r","t">>

BillTexts ==
    {CleanEnergyText,
     EarningsText,
     <<"A","p","o","l","l","o"," ","1","1"," ","l","a","n","d","s">>,
     <<"S","e","n","a","t","e"," ","p","a","s","s","e","d"," ","S","."," ","5","6","7","8">>,
     <<"A"," ","l","a","w"," ","o","n"," ","s","o","l","a","r">>,
     <<"N","e","w"," ","T","a","x"," ","A","c","t"," ","f","u","n","d","s"," ","r","o","a","d",
          "s">>,
     <<"C","o","n","g","r","e","s","s"," ","p","a","s","s","e","d"," ","H",".","R","."," ","1",
          " ","a","f","t","e","r"," ","t","h","e"," ","H","o","u","s","e"," ","p","a","s","s","e",
          "d"," ","i","t">>,
     <<"B","o","t","h"," ","c","h","a","m","b","e","r","s"," ","b","a","c","k"," ","t","h","e",
          " ","T","a","x"," ","A","c","t">>,
     <<"T","h","e"," ","S","E","C"," ","A","c","t"," ","o","n"," ","A","I"," ","a","n","d"," ",
          "E","V">>,
     <<"T","h","e"," ","S","c","h","o","o","l"," ","A","c","t">>,
     <<"T","h","e"," ","V","e","t","e","r","a","n","s"," ","A","c","t">>}

\* labelled articles for analyze_bill_impact
BillPool ==
    {Doc(<<"S","e","n","a","t","e"," ","p","a","s","s","e","d"," ","S","."," ","5","6","7","8">>, <<"I","t"," ","f","u","n","d","s"," ","r","o","a","d","s",".">>, GovernmentPolicy),
     Doc(<<"N","e","w"," ","T","a","x"," ","A","c","t">>, <<>>, GovernmentPolicy),
     Doc(<<"A","p","o","l","l","o"," ","1","1"," ","l","a","n","d","s">>, <<>>, GovernmentPolicy),
     Doc(<<"F","e","d"," ","c","u","t","s"," ","r","a","t","e","s">>, <<"N","o"," ","b","i","l","l">>, Finance)}

BillDicts ==
    {dicts \in UNION {[1..n -> BillPool] : n \in 0..MaxBillRows} :
        \A i, j \in 1..Len(dicts) : i # j => dicts[i].headline # dicts[j].headline}

InitBill ==
    /\ hash_order \in 0..MaxHashOrder
    /\ bill_text \in BillTexts
    /\ bill_info = <<>>
    /\ \E dicts \in BillDicts :
           bill_input = sort_articles_by_priority(DataFrame(dicts))
    /\ bill_result = <<>>
    /\ bill_status = "input"
    /\ DedupIdle
    /\ CatIdle
    /\ PrioIdle
    /\ CollectIdle
    /\ FactIdle
    /\ MainIdle

\* bill_info = extract_bill_info(article_text), then lines 222-224
ExtractBillInfo ==
    /\ bill_info = <<>>
    /\ \E info \in {extract_bill_info(bill_text)} :
           bill_info' =
               [info |-> info,
                companies_affected |->
                    IF info.found
                    THEN get_affected_companies(info.sectors_affected,
                                                DefaultMaxCompanies, hash_order)
                    ELSE <<>>]
    /\ UNCHANGED <<hash_order, bill_text, bill_input, bill_result, bill_status,
                   dedup_vars, cat_vars, prio_vars, collect_vars, fact_vars, main_vars>>

\* df_with_bills, bill_impacts = bill_watcher.analyze_bill_impact(df)
AnalyzeBillImpact ==
    /\ bill_status = "input"
    /\ bill_result' = analyze_bill_impact(bill_input, hash_order)
    /\ bill_status' = "analyzed"
    /\ UNCHANGED <<hash_order, bill_text, bill_info, bill_input,
                   dedup_vars, cat_vars, prio_vars, collect_vars, fact_vars, main_vars>>

NextBill == ExtractBillInfo \/ AnalyzeBillImpact

SpecBill == InitBill /\ [][NextBill]_vars

\* -------------------------------------------------------- the runs of main

Wire(t, c, u, s) == Raw(t, c, <<>>, u, Source(s), Published("utc", 0))

\* five articles of a trusted source that fall under no category
FiveWires ==
    <<Wire(<<"S","t","o","r","m"," ","h","i","t","s"," ","c","o","a","s","t">>, <<"H","e","a","v","y"," ","r","a","i","n"," ","f","e","l","l"," ","o","n"," ","t","h","e",
          " ","c","o","a","s","t"," ","f","o","r"," ","a"," ","w","h","o","l","e"," ","d","a","y",
          ".">>, <<"u","1">>, <<"R","e","u","t","e","r","s">>),
      Wire(<<"Q","u","i","e","t"," ","d","a","y"," ","i","n"," ","t","o","w","n">>, <<"L","o","r","e","m"," ","i","p","s","u","m">>, <<"u","2">>, <<"R","e","u","t","e","r","s">>),
      Wire(<<"L","o","c","a","l"," ","t","e","a","m"," ","w","i","n","s"," ","c","u","p">>, <<"L","o","r","e","m"," ","i","p","s","u","m">>, <<"u","3">>, <<"R","e","u","t","e","r","s">>),
      Wire(<<"N","e","w"," ","p","a","r","k"," ","o","p","e","n","s">>, <<"L","o","r","e","m"," ","i","p","s","u","m">>, <<"u","4">>, <<"R","e","u","t","e","r","s">>),
      Wire(<<"O","l","d"," ","m","i","l","l"," ","c","l","o","s","e","s">>, <<"L","o","r","e","m"," ","i","p","s","u","m">>, <<"u","5">>, <<"R","e","u","t","e","r","s">>)>>

\* what fetch_newsapi_articles returns in the runs: nothing; an entry without a
\* title; two articles, one on a bill; six articles, the last of which falls
\* under no category, is speculative finance news, or reports a bill
MainFeeds ==
    {<<>>,
     <<Raw(None, <<"L","o","r","e","m"," ","i","p","s","u","m">>, <<>>, Url1, Source(<<"R","e","u","t","e","r","s">>), Published("utc", 0))>>,
     <<Wire(<<"S","e","n","a","t","e"," ","p","a","s","s","e","d"," ","S","."," ","5","6","7","8">>, <<"I","t"," ","f","u","n","d","s"," ","r","o","a","d","s",".">>, <<"u","1">>, <<"R","e","u","t","e","r","s">>),
       Wire(<<"S","t","o","r","m"," ","h","i","t","s"," ","c","o","a","s","t">>, <<"L","o","r","e","m"," ","i","p","s","u","m">>, <<"u","2">>, <<"A"," ","b","l","o","g">>)>>,
     Append(FiveWires, Wire(<<"S","h","o","p"," ","o","p","e","n","s"," ","l","a","t","e">>, <<"L","o","r","e","m"," ","i","p","s","u","m">>, <<"u","6">>, <<"A"," ","b","l","o","g">>)),
     Append(FiveWires, Wire(<<"B","a","n","k"," ","m","a","y"," ","f","a","i","l">>, <<"L","o","r","e","m"," ","i","p","s","u","m">>, <<"u","6">>, <<"A"," ","b","l","o","g">>)),
     Append(FiveWires, Wire(<<"S","e","n","a","t","e"," ","p","a","s","s","e","d"," ","S","."," ","5","6","7","8">>, <<"I","t"," ","f","u","n","d","s"," ","r","o","a","d","s",".">>, <<"u","6">>, <<"A"," ","b","l","o","g">>))}

\* what the Gemini API answers to summarize_articles_batch
BatchReplies ==
    {[reply |-> "text", text |-> <<"1","."," ","A"," ","s","t","o","r","m"," ","h","i","t"," ","t","h","e"," ","c","o","a",
          "s","t",".","\n","2","."," ","N","o","t","h","i","n","g"," ","h","a","p","p","e","n","e",
          "d",".","\n","D","o","n","e">>],
     [reply |-> "error", text |-> <<>>],
     [reply |-> "empty", text |-> <<>>],
     [reply |-> "raises", text |-> <<>>]}

\* what it answers to the requests of summarize_and_neutralize
SingleReplies ==
    {[reply |-> "text", text |-> <<" ","R","a","i","n"," ","f","e","l","l","."," ">>],
     [reply |-> "error", text |-> <<>>]}

\* GEMINI_API_KEY unset, or set with the categorizer's request failing or
\* answered
InitMain ==
    /\ newsapi_articles \in MainFeeds
    /\ all_articles = <<>>
    /\ collected_unique = <<>>
    /\ high_priority_articles = <<>>
    /\ df = <<>>
    /\ collect_status = "fetched"
    /\ gemini \in {NoRequest,
                   [key |-> TRUE, reply |-> "error", text |-> <<>>],
                   [key |-> TRUE, reply |-> "text", text |-> <<"W","o","r","l","d","\n","F","i","n","a","n","c","e">>]}
    /\ batch = <<>>
    /\ fallback_label = <<>>
    /\ ai_label = <<>>
    /\ batch_labels = <<>>
    /\ cat_status = "idle"
    /\ now = FirstHour
    /\ scored = <<>>
    /\ evaluations = <<>>
    /\ keyword_trial = <<>>
    /\ selection = <<>>
    /\ DedupIdle
    /\ FactIdle
    /\ hash_order \in 0..MaxHashOrder
    /\ bill_text = <<>>
    /\ bill_info = <<>>
    /\ bill_input = <<>>
    /\ bill_result = <<>>
    /\ bill_status = "idle"
    /\ main_pc = "collect"
    /\ stdout = <<>>
    /\ df_summarized = <<>>
    /\ df_fact_checked = <<>>
    /\ df_with_bills = <<>>
    /\ bill_impacts = <<>>
    /\ html_email = <<>>

\* a stage of main ends: its result line is printed and main goes on or returns
Finish(stage, outcome) ==
    /\ stdout' = Append(stdout, <<stage, outcome>>)
    /\ main_pc' = after_stage(stage, outcome)

\* len(headline) and headline[:50] of lines 50 and 80 raise for a None headline
SampleFails(rows) ==
    \E k \in 1..Len(cut(rows, 5)) : rows[k].row.headline = None

\* lines 24-36: collect_all_news has returned or raised
CollectReturns ==
    /\ main_pc = "collect"
    /\ collect_status \in {"returned", "raised"}
    /\ Finish("collect", IF collect_status = "raised" THEN "failed"
                         ELSE IF df = <<>> THEN "empty"
                         ELSE "complete")
    /\ UNCHANGED <<df_summarized, df_fact_checked, df_with_bills, bill_impacts,
                   html_email, dedup_vars, cat_vars, prio_vars, collect_vars,
                   fact_vars, bill_vars>>

\* lines 38-61; the API answers a request without a key with an error
SummarizeStage ==
    /\ main_pc = "summarize"
    /\ \E batch_reply \in {b \in BatchReplies : gemini.key \/ b.reply # "text"},
          single_reply \in SingleReplies :
           \E r \in {summarize_articles(df, gemini.key, batch_reply, single_reply)} :
               /\ df_summarized' = IF r.raised THEN df_summarized ELSE r.value
               /\ Finish("summarize", IF r.raised THEN "failed"
                                      ELSE IF r.value = <<>> THEN "empty"
                                      ELSE IF SampleFails(r.value) THEN "failed"
                                      ELSE "complete")
    /\ UNCHANGED <<df_fact_checked, df_with_bills, bill_impacts, html_email,
                   dedup_vars, cat_vars, prio_vars, collect_vars, fact_vars, bill_vars>>

\* lines 63-85
FactCheckStage ==
    /\ main_pc = "fact_check"
    /\ \E r \in {fact_check_articles(df_summarized)} :
           /\ df_fact_checked' = IF r.raised THEN df_fact_checked ELSE r.value
           /\ Finish("fact_check", IF r.raised \/ SampleFails(r.value) THEN "failed"
                                   ELSE "complete")
    /\ UNCHANGED <<df_summarized, df_with_bills, bill_impacts, html_email,
                   dedup_vars, cat_vars, prio_vars, collect_vars, fact_vars, bill_vars>>

\* lines 87-104
BillStage ==
    /\ main_pc = "bill"
    /\ \E r \in {analyze_bill_impact(df_fact_checked, hash_order)} :
           /\ df_with_bills' = IF r.raised THEN df_with_bills ELSE r.df
           /\ bill_impacts' = IF r.raised THEN bill_impacts ELSE r.bill_impacts
           /\ Finish("bill", IF r.raised THEN "failed" ELSE "complete")
    /\ UNCHANGED <<df_summarized, df_fact_checked, html_email,
                   dedup_vars, cat_vars, prio_vars, collect_vars, fact_vars, bill_vars>>

\* lines 106-117: save_email_preview writes a file, which may fail
ComposeStage ==
    /\ main_pc = "compose"
    /\ html_email' = create_html_email(df_with_bills, bill_impacts)
    /\ \E saved \in BOOLEAN :
           Finish("compose", IF saved THEN "complete" ELSE "failed")
    /\ UNCHANGED <<df_summarized, df_fact_checked, df_with_bills, bill_impacts,
                   dedup_vars, cat_vars, prio_vars, collect_vars, fact_vars, bill_vars>>

\* lines 119-138: send_daily_digest returns False on every error
SendStage ==
    /\ main_pc = "send"
    /\ \E recipient_email \in BOOLEAN, success \in BOOLEAN :
           Finish("send", IF ~recipient_email THEN "skipped"
                          ELSE IF success THEN "sent"
                          ELSE "not sent")
    /\ UNCHANGED <<df_summarized, df_fact_checked, df_with_bills, bill_impacts,
                   html_email, dedup_vars, cat_vars, prio_vars, collect_vars,
                   fact_vars, bill_vars>>

NextMain ==
    \/ NextCollect
    \/ CollectReturns
    \/ SummarizeStage
    \/ FactCheckStage
    \/ BillStage
    \/ ComposeStage
    \/ SendStage

SpecMain == InitMain /\ [][NextMain]_vars

\* ------------------------------------------------ properties of the dedup

KeptSet == {kept[n] : n \in DOMAIN kept}

HeadlineWords(h) == set(split(lower(h)))

\* |wordsA \cap wordsB| / max(|wordsA|, |wordsB|) > 0.70
OverlapAbove70(h1, h2) ==
    LET wordsA == HeadlineWords(h1)
        wordsB == HeadlineWords(h2)
    IN  /\ wordsA # {}
        /\ wordsB # {}
        /\ 10 * Cardinality(wordsA \cap wordsB)
               > 7 * max(Cardinality(wordsA), Cardinality(wordsB))

\* article k explains the rejection of article j: same lower-cased trimmed
\* headline, same non-empty (trimmed) url, or headline overlap above 0.70
Explains(k, j) ==
    \/ strip(lower(articles[k].headline)) = strip(lower(articles[j].headline))
    \/ /\ strip(articles[k].url) = strip(articles[j].url)
       /\ strip(articles[j].url) # <<>>
    \/ OverlapAbove70(articles[k].headline, articles[j].headline)

DedupReturned == dedup_status \in {"returned", "rerun"}

\* C1 as stated: of two articles whose headlines overlap above 0.70 at most one
\* is in the output, and the survivor is the earlier of the two.
C1_FirstOfPairSurvives ==
    DedupReturned =>
        \A i, j \in 1..Len(articles) :
            (i < j /\ OverlapAbove70(articles[i].headline, articles[j].headline))
                => /\ ~(i \in KeptSet /\ j \in KeptSet)
                   /\ (i \in KeptSet \/ j \in KeptSet) => i \in KeptSet

\* C1 amended: of two articles whose headlines overlap above 0.70 at most one is
\* in the output; when the earlier one is kept the later one is rejected, and the
\* later one survives only when the earlier one was itself rejected because of an
\* article kept before it.
C1_AtMostOneOfPairSurvives ==
    DedupReturned =>
        \A i, j \in 1..Len(articles) :
            (i < j /\ OverlapAbove70(articles[i].headline, articles[j].headline))
                => /\ ~(i \in KeptSet /\ j \in KeptSet)
                   /\ j \in KeptSet =>
                          \E k \in 1..(i - 1) : k \in KeptSet /\ Explains(k, i)

C1_Witness ==
    /\ dedup_status = "returned"
    /\ \E i, j \in 1..Len(articles) :
           /\ i < j
           /\ OverlapAbove70(articles[i].headline, articles[j].headline)
           /\ j \in KeptSet
           /\ i \notin KeptSet

\* C2: remove_duplicates applied to its own output returns the same articles in
\* the same order.
C2_Idempotent ==
    dedup_status = "rerun" => unique_again = unique_articles

C2_Witness ==
    /\ dedup_status = "rerun"
    /\ Len(unique_articles) >= 2
    /\ Len(unique_articles) < Len(articles)

FedPair == <<Entry(FedQuarter, Url1), Entry(FederalReserveQuarter, Url2)>>

\* C4 as stated: the two Fed headlines collapse to the first entry.
C4_FedPairCollapses ==
    (dedup_status = "returned" /\ articles = FedPair)
        => unique_articles = <<FedPair[1]>>

\* C4 amended: the two Fed headlines share 4 of 6 words (0.667, not above 0.70),
\* so remove_duplicates keeps both entries, in input order.
C4_FedPairBothKept ==
    (dedup_status = "returned" /\ articles = FedPair)
        => /\ unique_articles = FedPair
           /\ Cardinality(HeadlineWords(FedQuarter)
                            \cap HeadlineWords(FederalReserveQuarter)) = 4
           /\ Cardinality(HeadlineWords(FedQuarter)) = 6
           /\ Cardinality(HeadlineWords(FederalReserveQuarter)) = 6

C4_Witness ==
    /\ dedup_status = "returned"
    /\ articles = FedPair
    /\ Len(unique_articles) = 2

\* --------------------------------------------- properties of the categorizer

EightLabels ==
    {Technology, Health, GovernmentPolicy, Economy, Finance, World, Space, Miscellaneous}

\* the text the fallback looks at
FallbackText(article) == lower(article.headline \o <<" ">> \o article.description)

\* the categories, by position in CATEGORIES, whose keyword table has a
\* case-insensitive substring hit in the text
CategoryHits(article) ==
    {i \in 1..Len(CATEGORIES) :
        \E k \in 1..Len(CATEGORIES[i].keywords) :
            contains(FallbackText(article), lower(CATEGORIES[i].keywords[k]))}

DeclarationOrder ==
    \A i \in 1..Len(CATEGORIES) : CATEGORIES[i].category = categories[i]

\* C6 as stated: the fallback returns one of the 8 labels, the first category in
\* declaration order whose keyword table has a hit, and Miscellaneous exactly
\* when no keyword table has a hit.
C6_FirstKeywordCategoryOrMisc ==
    cat_status = "fallback" =>
        LET hits == CategoryHits(batch[1])
        IN  /\ DeclarationOrder
            /\ fallback_label \in EightLabels
            /\ hits # {} => fallback_label = CATEGORIES[SetMin(hits)].category
            /\ fallback_label = Miscellaneous <=> hits = {}

\* C6 amended: as stated, except that a text with no keyword hit that contains
\* 'prince' or 'defector' (secondary World patterns of line 423 that no keyword
\* table covers) is labelled World; the result is Miscellaneous exactly when
\* neither a keyword table nor one of these two patterns has a hit.
C6_FirstKeywordCategoryOrPattern ==
    cat_status = "fallback" =>
        LET hits == CategoryHits(batch[1])
            royal == \/ contains(FallbackText(batch[1]), <<"p","r","i","n","c","e">>)
                     \/ contains(FallbackText(batch[1]), <<"d","e","f","e","c","t","o","r">>)
        IN  /\ DeclarationOrder
            /\ fallback_label \in EightLabels
            /\ hits # {} => fallback_label = CATEGORIES[SetMin(hits)].category
            /\ (hits = {} /\ royal) => fallback_label = World
            /\ fallback_label = Miscellaneous <=> (hits = {} /\ ~royal)

C6_Witness ==
    /\ cat_status = "fallback"
    /\ CategoryHits(batch[1]) = {}
    /\ fallback_label = World

\* the cleaned response names no category and hits no entry of the inference table
Unmapped(response) ==
    LET cleaned == remove_quotes(strip(response))
    IN  named_category(1, cleaned) = NoMatch /\ inferred_category(cleaned) = NoMatch

\* no line of the response yields a category
Unparseable(response) ==
    LET lines == split_on(strip(response), "\n")
    IN  \A i \in 1..Len(lines) : Unmapped(lines[i])

\* C7: when the 200 response cannot be parsed into categories at all, the batch
\* result is the keyword fallback of every article.
C7_UnparseableBatchFallsBack ==
    (cat_status = "batch" /\ answered(gemini) /\ Unparseable(gemini.text))
        => batch_labels = fallback_all(batch)

\* the conditions under which the single-article categorizer has no usable answer
NoUsableAnswer ==
    \/ ~gemini.key
    \/ gemini.reply \in {"raises", "error", "empty"}
    \/ gemini.reply = "text" /\ Unmapped(gemini.text)

\* C8: without a credential, on an exception or timeout, on a non-200 status,
\* without candidates or on an unmapped response, categorize_article_with_ai
\* returns categorize_article_fallback(article), one of the 8 labels, and
\* raises nothing.
C8_SingleFallsBack ==
    (cat_status = "single" /\ NoUsableAnswer)
        => /\ ai_label = categorize_article_fallback(batch[1])
           /\ ai_label \in EightLabels

C8_Witness ==
    /\ cat_status = "single"
    /\ gemini.key
    /\ gemini.reply = "text"
    /\ Unmapped(gemini.text)
    /\ ai_label = Technology

\* C9: the batch categorizer returns exactly one of the 8 labels per article,
\* whatever the request does; a parsed response shorter than the batch is
\* padded with Miscellaneous and a longer one is cut.
C9_OneLabelPerArticle ==
    cat_status = "batch" =>
        /\ Len(batch_labels) = Len(batch)
        /\ \A k \in 1..Len(batch) : batch_labels[k] \in EightLabels
        /\ (answered(gemini) /\ batch # <<>>) =>
               LET parsed == parse_lines(split_on(strip(gemini.text), "\n"), 1)
               IN  \A k \in 1..Len(batch) :
                       batch_labels[k] =
                           IF k <= Len(parsed) THEN parsed[k] ELSE Miscellaneous

C9_Witness ==
    /\ cat_status = "batch"
    /\ answered(gemini)
    /\ Len(batch) = 2
    /\ Len(parse_lines(split_on(strip(gemini.text), "\n"), 1)) = 1
    /\ batch_labels[1] # Miscellaneous
    /\ batch_labels[2] = Miscellaneous

\* -------------------------------------------------- properties of the scorer

\* C10 as stated: two evaluations of the same article record return the same
\* score, whenever they happen.
C10_SameScoreAtAnyTime ==
    \A i, j \in 1..Len(evaluations) :
        evaluations[i].result = evaluations[j].result

\* the recency bonus of the weight table, in halves: 2 below 6 hours, 1 below 12
Recency(article, clock) ==
    IF article.published_at.kind # "utc" THEN 0
    ELSE IF clock - article.published_at.hour < 6 THEN 4
    ELSE IF clock - article.published_at.hour < 12 THEN 2
    ELSE 0

\* C10 amended: the score is a function of the article and of the clock only.
\* Two evaluations at the same instant agree, two evaluations at different
\* instants differ by the difference of their recency bonuses and by nothing
\* else, and they agree when published_at is no offset-aware timestamp.
C10_SameScoreUpToRecency ==
    \A i, j \in 1..Len(evaluations) :
        /\ ~evaluations[i].result.raised
        /\ evaluations[i].result.score - Recency(scored, evaluations[i].at)
               = evaluations[j].result.score - Recency(scored, evaluations[j].at)
        /\ evaluations[i].at = evaluations[j].at
               => evaluations[i].result = evaluations[j].result
        /\ scored.published_at.kind # "utc"
               => evaluations[i].result = evaluations[j].result

C10_Witness ==
    /\ Len(evaluations) = 2
    /\ evaluations[1].at < evaluations[2].at
    /\ evaluations[1].result.score = evaluations[2].result.score + 2

\* ----------------------------------------- properties of collect_all_news

\* a fetched entry lacks its title, its url, its source name, its
\* publishedAt, or both content and description
HasMissingField(art) ==
    \/ art.title = None
    \/ art.url = None
    \/ art.source.null
    \/ art.source.name = None
    \/ art.publishedAt.kind = "none"
    \/ (art.content = None /\ art.description = None)

\* C5: a missing field is treated as the empty string; the collection stages
\* complete without raising and collect_all_news returns a collection.
C5_MissingFieldNeverFatal ==
    (\E i \in 1..Len(newsapi_articles) : HasMissingField(newsapi_articles[i]))
        => collect_status # "raised"

\* ---------------------------------------- properties of the keyword weights

\* the keyword occurs, lower-cased, in the headline or the description
Occurs(article, keyword) ==
    \/ contains(lower(get(article, "headline")), keyword)
    \/ contains(lower(get(article, "description")), keyword)

\* C11 as stated: adding a recognized high-impact keyword to the text of any
\* article, everything else identical, yields a strictly greater score.
C11_KeywordStrictlyIncreases ==
    keyword_trial # <<>> =>
        keyword_trial.after.score > keyword_trial.before.score

\* C11 amended: adding a high-impact keyword that does not yet occur in the
\* headline or the description raises the score by at least its weight of 6;
\* adding one that already occurs never lowers the score.
C11_NewKeywordStrictlyIncreases ==
    keyword_trial # <<>> =>
        /\ ~keyword_trial.before.raised /\ ~keyword_trial.after.raised
        /\ keyword_trial.after.score >= keyword_trial.before.score
        /\ ~Occurs(scored, keyword_trial.keyword)
               => keyword_trial.after.score >= keyword_trial.before.score + 12

C11_Witness ==
    /\ keyword_trial # <<>>
    /\ ~Occurs(scored, keyword_trial.keyword)
    /\ \E k \in 1..Len(high_impact_keywords) : Occurs(scored, high_impact_keywords[k])
    /\ keyword_trial.after.score = keyword_trial.before.score + 12

\* ------------------------------------------------ properties of the selection

ScoreOf(article) == calculate_article_priority(article, now).score

\* result is the list of the articles at the input positions f[1], f[2], ...,
\* best score first and, among equal scores, earliest input position first,
\* and every position left out comes after all of f in that order
SelectedInOrder(arts, result, f) ==
    /\ \A r \in 1..Len(result) : result[r] = arts[f[r]]
    /\ \A r, q \in 1..Len(result) :
           r < q => \/ ScoreOf(arts[f[r]]) > ScoreOf(arts[f[q]])
                    \/ ScoreOf(arts[f[r]]) = ScoreOf(arts[f[q]]) /\ f[r] < f[q]
    /\ \A j \in 1..Len(arts) :
           (\A r \in 1..Len(result) : f[r] # j) =>
               \A r \in 1..Len(result) :
                   \/ ScoreOf(arts[j]) < ScoreOf(arts[f[r]])
                   \/ ScoreOf(arts[j]) = ScoreOf(arts[f[r]]) /\ j > f[r]

\* C12: select_high_priority_articles(articles, N) returns min(N, len(articles))
\* articles in non-increasing score order, no unselected article scores higher
\* than a selected one, and equal scores keep input order, also at the cut-off.
C12_TopNStable ==
    (selection # <<>> /\ selection.done) =>
        LET arts == selection.articles
            result == selection.result.value
        IN  /\ ~selection.result.raised
            /\ Len(result) = IF selection.max_count < Len(arts)
                             THEN selection.max_count ELSE Len(arts)
            /\ \E f \in [1..Len(result) -> 1..Len(arts)] :
                   SelectedInOrder(arts, result, f)

C12_Witness ==
    /\ selection # <<>>
    /\ selection.done
    /\ Len(selection.articles) = 3
    /\ selection.max_count = 2
    /\ selection.articles[1] # selection.articles[2]
    /\ ScoreOf(selection.articles[1]) = ScoreOf(selection.articles[2])
    /\ ScoreOf(selection.articles[3]) > ScoreOf(selection.articles[1])
    /\ selection.result.value = <<selection.articles[3], selection.articles[1]>>

\* ------------------------------------------- properties of the fact checker

\* the row of the frame that carries the index label
RowLabelled(rows, label) == (CHOOSE k \in 1..Len(rows) : rows[k].index = label)

StatusOf(rows, label) == rows[RowLabelled(rows, label)].row.fact_check_status

\* the similarity groups of the checked frame, as lists of index labels
Groups == find_similar_articles(fact_input)

\* the group was flagged for conflicting dates by check_article_consistency
Flagged(group) ==
    check_fact_consistency(
        [k \in 1..Len(group) |->
            extract_facts(article_text(fact_input[group[k] + 1].row))])

\* C13: if articles A and B are in the same similarity group and the group is
\* flagged for conflicting dates, A and B both end with status Unverified, also
\* in a frame whose row labels differ from the row positions.
C13_FlaggedGroupAllUnverified ==
    (fact_status = "checked" /\ ~fact_result.raised) =>
        \A g \in 1..Len(Groups) :
            Flagged(Groups[g]) =>
                \A k \in 1..Len(Groups[g]) :
                    StatusOf(fact_result.value, Groups[g][k]) = Unverified

\* C14: every article ends with exactly one of the two statuses, and it is
\* Unverified exactly when its own group was flagged or its own text has more
\* unverified cues than fact cues.
C14_StatusIffGroupOrCues ==
    (fact_status = "checked" /\ ~fact_result.raised) =>
        \A r \in 1..Len(fact_input) :
            LET label == fact_input[r].index
                status == StatusOf(fact_result.value, label)
                own == \E g \in 1..Len(Groups) :
                           /\ \E k \in 1..Len(Groups[g]) : Groups[g][k] = label
                           /\ Flagged(Groups[g])
            IN  /\ status \in {FactChecked, Unverified}
                /\ status = Unverified <=> (own \/ has_unverified_claims(fact_input[r].row))

\* ------------------------------------------- properties of the bill watcher

\* the text holds one of the legislative words of BILL_KEYWORDS
HasGateKeyword(text) ==
    \E k \in 1..Len(BILL_KEYWORDS) : contains(lower(text), BILL_KEYWORDS[k])

HasIdentity(bill) == bill.bill_name # None \/ bill.bill_number # None

\* the row of the analysed frame an entry of bill_impacts was made from
ImpactText(impact) ==
    article_text(bill_input[RowLabelled(bill_input, impact.article_index)].row)

\* C15: extract_bill_info gives a bill only for a text with a legislative gate
\* keyword in which a bill number or a bill name was found; every entry of the
\* list of analyze_bill_impact has a name or a number and comes from such a
\* text; "Microsoft releases new earnings report" gives no bill.
C15_BillNeedsGateAndIdentity ==
    /\ bill_info # <<>> =>
           /\ bill_info.info.found =>
                  HasGateKeyword(bill_text) /\ HasIdentity(bill_info.info)
           /\ bill_text = EarningsText => ~bill_info.info.found
    /\ bill_status = "analyzed" =>
           \A b \in 1..Len(bill_result.bill_impacts) :
               /\ HasIdentity(bill_result.bill_impacts[b])
               /\ HasGateKeyword(ImpactText(bill_result.bill_impacts[b]))

C15_Witness ==
    /\ bill_info # <<>>
    /\ bill_info.info.found
    /\ bill_info.info.bill_number = None
    /\ bill_status = "analyzed"
    /\ Len(bill_result.bill_impacts) = 2

IsPrefix(prefix, text) ==
    Len(prefix) <= Len(text) /\ SubSeq(text, 1, Len(prefix)) = prefix

\* C16: for the Clean Energy example text extract_bill_info returns the number
\* "H.R. 1234", the name "Clean Energy Act", the branch senate, sectors with
\* Renewable Energy and Infrastructure and an explanation that starts with
\* "It allocates funding for solar and EV infrastructure"; the companies come
\* from the tables of those two sectors only.
C16_CleanEnergyExample ==
    (bill_text = CleanEnergyText /\ bill_info # <<>>) =>
        /\ bill_info.info.found
        /\ bill_info.info.bill_number = <<"H",".","R","."," ","1","2","3","4">>
        /\ bill_info.info.bill_name = <<"C","l","e","a","n"," ","E","n","e","r","g","y"," ","A","c","t">>
        /\ bill_info.info.branch_passed = "senate"
        /\ {"Renewable Energy", "Infrastructure"} \subseteq set(bill_info.info.sectors_affected)
        /\ IsPrefix(<<"I","t"," ","a","l","l","o","c","a","t","e","s"," ","f","u","n","d","i","n","g"," ","f",
          "o","r"," ","s","o","l","a","r"," ","a","n","d"," ","E","V"," ","i","n","f","r","a","s",
          "t","r","u","c","t","u","r","e">>,
                    bill_info.info.explanation)
        /\ set(bill_info.companies_affected) \subseteq
               set(COMPANIES_BY_SECTOR["Renewable Energy"])
                   \cup set(COMPANIES_BY_SECTOR["Infrastructure"])

\* ------------------------------------------------------ properties of main

\* the stages of main in the order of the source
MainStages == <<"collect", "summarize", "fact_check", "bill", "compose", "send">>

Ran(stage) == \E i \in 1..Len(stdout) : stdout[i][1] = stage

Completed(stage) == \E i \in 1..Len(stdout) : stdout[i] = <<stage, "complete">>

\* C17: with GEMINI_API_KEY unset the summarization stage still completes and
\* returns the whole collection with empty summaries, so that main goes on to
\* the later stages.
C17_MissingKeyHandled ==
    (~gemini.key /\ Ran("summarize")) =>
        /\ Completed("summarize")
        /\ main_pc # "returned" \/ Ran("fact_check")
        /\ Len(df_summarized) = Len(df)
        /\ \A k \in 1..Len(df_summarized) : df_summarized[k].row.summary = None

\* C18: an error on one article never ends the run: whenever main has come to
\* its end with a collected batch, the stages summarize, fact-check and
\* bill-extract have all completed and the enriched collection exists.
C18_NoStageAbortsTheBatch ==
    (Completed("collect") /\ main_pc \in {"returned", "completed"}) =>
        /\ Completed("summarize")
        /\ Completed("fact_check")
        /\ Completed("bill")
        /\ df_with_bills # <<>>

Headlines(rows) == {rows[k].row.headline : k \in 1..Len(rows)}

SameArticles(before, after) ==
    Len(after) = Len(before) /\ Headlines(after) = Headlines(before)

\* C19: after the selection no stage removes an article: the frame returned by
\* collect_all_news has the selected articles, and summarize, fact-check and
\* bill-extract each return the articles they were given, also when
\* summarize_articles takes its individual fallback.
C19_NoStageDropsArticles ==
    /\ collect_status = "returned" =>
           /\ Len(df) = Len(high_priority_articles)
           /\ Headlines(df) = {high_priority_articles[k].headline :
                                  k \in 1..Len(high_priority_articles)}
    /\ Completed("summarize") => SameArticles(df, df_summarized)
    /\ Completed("fact_check") => SameArticles(df_summarized, df_fact_checked)
    /\ Completed("bill") => SameArticles(df_fact_checked, df_with_bills)

\* the result lines are those of the stages in source order, one line a stage,
\* and nothing follows a stage that failed or found the collection empty
StagesInOrder ==
    /\ Len(stdout) <= Len(MainStages)
    /\ \A i \in 1..Len(stdout) :
           /\ stdout[i][1] = MainStages[i]
           /\ i < Len(stdout) => stdout[i][2] \notin {"failed", "empty"}
    /\ stdout # <<>> => collect_status \in {"returned", "raised"}
    /\ Completed("collect") => collect_status = "returned"

\* collect_all_news goes through build, dedup, select, categorize and sort, one
\* after the other, before main prints anything, and stops where a step raised
CollectInOrder ==
    collect_status' # collect_status =>
        /\ stdout = <<>>
        /\ <<collect_status, collect_status'>> \in
               {<<"fetched", "built">>, <<"built", "deduped">>,
                <<"deduped", "selected">>, <<"selected", "categorized">>,
                <<"categorized", "returned">>, <<"built", "raised">>,
                <<"deduped", "raised">>, <<"selected", "raised">>}

\* C20: the stages run in the order dedup, select, categorize, summarize,
\* fact-check, bill-extract, compose, send, each after the one before it has
\* completed and none twice; after a stage that failed, or an empty
\* collection, no stage starts.
C20_StagesRunInOrder == [][StagesInOrder' /\ CollectInOrder]_vars

C20_Witness ==
    /\ main_pc = "completed"
    /\ Len(df) = 6
    /\ stdout[Len(stdout)] = <<"send", "sent">>

\* ------------------------------------- further properties of the bill watcher

\* the row of the frame returned by analyze_bill_impact is marked
Marked(r) == "bill_impact" \in DOMAIN r.row /\ r.row["bill_impact"] = "Bill Impact"

\* C21: in the frame analyze_bill_impact returns, also for a frame whose row
\* labels differ from the row positions, the rows marked with a bill impact
\* are exactly the articles an entry of bill_impacts was made from, the
\* article_index of an entry is the label of the article whose headline the
\* entry carries, and no article outside Government/Policy is marked.
C21_MarkedRowsAreBillArticles ==
    (bill_status = "analyzed" /\ ~bill_result.raised) =>
        LET out == bill_result.df
            entries == bill_result.bill_impacts
            sources == {entries[b].article_index : b \in 1..Len(entries)}
        IN  /\ \A k \in 1..Len(out) : Marked(out[k]) <=> out[k].index \in sources
            /\ \A b \in 1..Len(entries) :
                   bill_input[RowLabelled(bill_input, entries[b].article_index)].row.headline
                       = entries[b].headline
            /\ \A k \in 1..Len(out) :
                   out[k].row.category # GovernmentPolicy => ~Marked(out[k])

\* ------------------------------------------ further properties of the scorer

\* the keyword occurs in the headline or the description of the article
Present(keyword, article) ==
    \/ contains(lower(get(article, "headline")), keyword)
    \/ contains(lower(get(article, "description")), keyword)

\* the weight, once for every distinct keyword of the list that is present
PerKeyword(weight, keywords, article) ==
    weight * Cardinality({keyword \in set(keywords) : Present(keyword, article)})

\* the weight, once if any entry of the list is present
Once(weight, present) == IF present THEN weight ELSE 0

\* the sum of the weight table without its recency bonus, in halves
WeightTable(article) ==
    Once(20, \E s \in set(trusted_sources) : contains(lower(get(article, "source")), s))
    + Once(16, \E b \in set(breaking_keywords) : Present(b, article))
    + PerKeyword(12, high_impact_keywords, article)
    + PerKeyword(10, market_keywords, article)
    + PerKeyword(8, tech_keywords, article)
    + PerKeyword(8, health_keywords, article)
    + PerKeyword(6, world_keywords, article)
    + (IF Len(get(article, "content")) > 500 THEN 2
       ELSE IF Len(get(article, "content")) > 200 THEN 1
       ELSE 0)

\* the recency bonus by the age of the article alone: 0 only for a timestamp
\* that is missing or cannot be parsed
RecencyByAge(article, clock) ==
    IF article.published_at.kind \notin {"utc", "naive"} THEN 0
    ELSE IF clock - article.published_at.hour < 6 THEN 4
    ELSE IF clock - article.published_at.hour < 12 THEN 2
    ELSE 0

\* C22 as stated: the score is the sum of the weight table and of a recency
\* bonus of 2 below 6 hours of age, 1 below 12, and 0 for a missing or
\* unparsable timestamp; it is never negative.
C22_ScoreIsWeightTableSum ==
    \A i \in 1..Len(evaluations) :
        /\ ~evaluations[i].result.raised
        /\ evaluations[i].result.score
               = WeightTable(scored) + RecencyByAge(scored, evaluations[i].at)
        /\ evaluations[i].result.score >= 0

\* C22 amended: the recency bonus is given to an offset-aware timestamp only;
\* a timestamp without offset parses, the subtraction from the aware clock
\* raises, and the article gets no bonus whatever its age.
C22_ScoreIsWeightTableSumAware ==
    \A i \in 1..Len(evaluations) :
        /\ ~evaluations[i].result.raised
        /\ evaluations[i].result.score
               = WeightTable(scored) + Recency(scored, evaluations[i].at)
        /\ evaluations[i].result.score >= 0

C22_Witness ==
    /\ Len(evaluations) = 1
    /\ get(scored, "description") # <<>>
    /\ scored.published_at.kind = "naive"
    /\ evaluations[1].result.score = 20 + 16 + 2 * 12 + 2 * 10 + 8 + 6

\* ------------------------------------ further properties of the fact checker

\* the lower-cased headline of the article with the index label
HeadlineOf(label) ==
    lower(str(get(fact_input[RowLabelled(fact_input, label)].row, "headline")))

MembersOf(group) == {group[k] : k \in 1..Len(group)}

\* C23: the groups of find_similar_articles are pairwise disjoint and have at
\* least two members each; no article is in a group twice; the first member
\* of a group comes before its other members in the frame, the groups are in
\* the order of their first members, and every other member has a headline
\* similarity above 0.6 to the first member.
C23_GroupsDisjointAroundSeed ==
    fact_status = "grouped" =>
        LET groups == fact_result
            Pos(label) == RowLabelled(fact_input, label)
        IN  /\ \A g \in 1..Len(groups) :
                   /\ Len(groups[g]) >= 2
                   /\ Cardinality(MembersOf(groups[g])) = Len(groups[g])
                   /\ MembersOf(groups[g]) \subseteq
                          {fact_input[k].index : k \in 1..Len(fact_input)}
                   /\ \A k \in 2..Len(groups[g]) :
                          /\ Pos(groups[g][1]) < Pos(groups[g][k])
                          /\ ratio_above_threshold(HeadlineOf(groups[g][1]),
                                                   HeadlineOf(groups[g][k]))
            /\ \A g, h \in 1..Len(groups) :
                   g < h => /\ MembersOf(groups[g]) \cap MembersOf(groups[h]) = {}
                            /\ Pos(groups[g][1]) < Pos(groups[h][1])

C23_Witness ==
    /\ fact_status = "grouped"
    /\ Len(fact_input) = 4
    /\ Len(fact_result) = 2
    /\ \E k \in 1..4 : fact_input[k].index # k - 1

\* the distinct dates of the fact dicts of the list
DateValues(facts_list) ==
    UNION {set(facts_list[k].dates) : k \in 1..Len(facts_list)}

\* the list with other numbers in the dict at place k
WithNumbers(facts_list, k, numbers) ==
    [facts_list EXCEPT ![k] = [dates |-> facts_list[k].dates, numbers |-> numbers]]

\* C24: check_fact_consistency reports a list of two or more fact dicts
\* exactly when their dates have more than one distinct value; a list of
\* fewer than two dicts is never reported, and the numbers of the dicts do
\* not change the outcome.
C24_FlaggedIffDatesDiffer ==
    fact_status = "compared" =>
        /\ fact_result <=>
               (Len(fact_input) >= 2 /\ Cardinality(DateValues(fact_input)) > 1)
        /\ Len(fact_input) < 2 => ~fact_result
        /\ \A k \in 1..Len(fact_input), f \in FactSets :
               check_fact_consistency(WithNumbers(fact_input, k, f.numbers)) = fact_result

C24_Witness ==
    /\ fact_status = "compared"
    /\ ~fact_result
    /\ Len(fact_input) = 2
    /\ fact_input[1].dates = fact_input[2].dates
    /\ fact_input[1].dates # <<>>
    /\ fact_input[1].numbers # <<>>
    /\ fact_input[2].numbers # <<>>
    /\ fact_input[1].numbers # fact_input[2].numbers

\* ------------------------------------------- further properties of the dedup

\* the headline as remove_duplicates compares it
Trimmed(article) == strip(lower(article.headline))

\* C25: remove_duplicates never divides by zero: the overlap ratio is computed
\* only for two headlines with a non-empty word set each, also when a headline
\* is empty or blank; an article with an empty headline is never rejected by
\* the overlap rule, it is kept unless an earlier kept article has the same
\* trimmed headline or the same non-empty url.
C25_NoDivisionByZero ==
    /\ \A i, k \in 1..Len(articles) :
           (articles[i].headline # None /\ articles[k].headline # None) =>
               /\ ratio_computed(Trimmed(articles[i]), Trimmed(articles[k])) =>
                      /\ overlap_divisor(Trimmed(articles[i]), Trimmed(articles[k])) > 0
                      /\ set(split(Trimmed(articles[i]))) # {}
                      /\ set(split(Trimmed(articles[k]))) # {}
               /\ Trimmed(articles[i]) = <<>> =>
                      ~similar_headlines(Trimmed(articles[i]), Trimmed(articles[k]))
    /\ DedupReturned =>
           \A j \in 1..Len(articles) :
               (Trimmed(articles[j]) = <<>> /\ j \notin KeptSet) =>
                   \E k \in KeptSet :
                       /\ k < j
                       /\ \/ Trimmed(articles[k]) = <<>>
                          \/ /\ strip(articles[k].url) = strip(articles[j].url)
                             /\ strip(articles[j].url) # <<>>

C25_Witness ==
    /\ DedupReturned
    /\ Len(articles) = 3
    /\ kept = <<1, 2>>
    /\ Trimmed(articles[1]) # <<>>
    /\ articles[2].headline = Blank
    /\ articles[3].headline = <<>>

\* ------------------------------------------ properties of the bill fields

\* a keyword of the set of the branch is in the lower-cased text
BranchHit(branch, text) ==
    \E b \in 1..Len(BRANCH_KEYWORDS) :
        /\ BRANCH_KEYWORDS[b].branch = branch
        /\ \E k \in 1..Len(BRANCH_KEYWORDS[b].keywords) :
               contains(lower(text), BRANCH_KEYWORDS[b].keywords[k])

\* house before senate before both; "None" is the value of an unknown branch
FirstBranch(text) ==
    IF BranchHit("house", text) THEN "house"
    ELSE IF BranchHit("senate", text) THEN "senate"
    ELSE IF BranchHit("both", text) THEN "both"
    ELSE "None"

\* C26: branch_passed of a bill is house, senate, both or unknown (None): the
\* first of the keyword sets house, senate, both, in that order, that has a
\* hit in the text, and unknown when none has.
C26_FirstBranchInFixedOrder ==
    /\ (bill_info # <<>> /\ bill_info.info.found) =>
           /\ bill_info.info.branch_passed \in {"house", "senate", "both", "None"}
           /\ bill_info.info.branch_passed = FirstBranch(bill_text)
    /\ bill_status = "analyzed" =>
           \A b \in 1..Len(bill_result.bill_impacts) :
               bill_result.bill_impacts[b].branch_passed
                   = FirstBranch(ImpactText(bill_result.bill_impacts[b]))

C26_Witness ==
    /\ bill_info # <<>>
    /\ bill_info.info.found
    /\ bill_info.info.branch_passed = "house"
    /\ BranchHit("both", bill_text)
    /\ bill_status = "analyzed"
    /\ \E b \in 1..Len(bill_result.bill_impacts) :
           bill_result.bill_impacts[b].branch_passed = "senate"

\* a keyword of the list of the sector occurs in the text, whatever its case
SectorHit(s, text) ==
    \E k \in 1..Len(SECTOR_KEYWORDS[s].keywords) :
        contains(lower(text), lower(SECTOR_KEYWORDS[s].keywords[k]))

\* the sectors with a hit in the text
HitSectors(text) ==
    {SECTOR_KEYWORDS[s].sector : s \in {n \in 1..Len(SECTOR_KEYWORDS) : SectorHit(n, text)}}

\* C27: sectors_affected of a bill is the set of all sectors one of whose
\* keywords occurs in the text, the upper-case keywords AI, EV and SEC
\* included.
C27_SectorsAreAllHits ==
    /\ (bill_info # <<>> /\ bill_info.info.found) =>
           set(bill_info.info.sectors_affected) = HitSectors(bill_text)
    /\ bill_status = "analyzed" =>
           \A b \in 1..Len(bill_result.bill_impacts) :
               set(bill_result.bill_impacts[b].sectors_affected)
                   = HitSectors(ImpactText(bill_result.bill_impacts[b]))

\* the tickers of the static lists of the sectors
TickersOf(sectors) ==
    UNION {set(COMPANIES_BY_SECTOR[s]) : s \in set(sectors) \cap DOMAIN COMPANIES_BY_SECTOR}

\* the list is one get_affected_companies may return for the sectors
CompaniesOfSectors(companies, sectors) ==
    /\ Cardinality(set(companies)) = Len(companies)
    /\ Len(companies) <= DefaultMaxCompanies
    /\ set(companies) \subseteq TickersOf(sectors)
    /\ Cardinality(TickersOf(sectors)) <= DefaultMaxCompanies
           => set(companies) = TickersOf(sectors)
    /\ sectors = <<>> => companies = <<>>

\* C28: get_affected_companies returns a list without duplicates of at most
\* 10 tickers, all from the static lists of the given sectors; it has all of
\* them when they are at most 10, and it is empty when no sector is given.
C28_CompaniesCappedUnion ==
    /\ (bill_info # <<>> /\ bill_info.info.found) =>
           CompaniesOfSectors(bill_info.companies_affected,
                              bill_info.info.sectors_affected)
    /\ bill_status = "analyzed" =>
           \A b \in 1..Len(bill_result.bill_impacts) :
               CompaniesOfSectors(bill_result.bill_impacts[b].companies_affected,
                                  bill_result.bill_impacts[b].sectors_affected)

C28_Witness ==
    /\ bill_info # <<>>
    /\ bill_info.info.sectors_affected = <<"Education">>
    /\ Len(bill_info.companies_affected) = 8
    /\ bill_info.companies_affected[1] # "APEI"
    /\ bill_status = "analyzed"
    /\ \E b \in 1..Len(bill_result.bill_impacts) :
           Len(bill_result.bill_impacts[b].companies_affected) = DefaultMaxCompanies

\* the seven topical categories
Topical == {Technology, Health, GovernmentPolicy, Economy, Finance, World, Space}

\* every topical row of the frame stands before every Miscellaneous row
TopicalFirst(frame) ==
    \A i, j \in 1..Len(frame) :
        (frame[i].row.category \in Topical /\ frame[j].row.category = Miscellaneous)
            => i < j

\* the frame has the rows of pd.DataFrame(dicts), each once
PermutationOf(frame, dicts) ==
    /\ Len(frame) = Len(dicts)
    /\ {frame[i].index : i \in 1..Len(frame)} = 0..(Len(dicts) - 1)
    /\ \A i \in 1..Len(frame) : frame[i].row = dicts[frame[i].index + 1]

\* of two dated rows of one category the newer one stands first
NewerFirst(frame) ==
    \A i, j \in 1..Len(frame) :
        (/\ i < j
         /\ frame[i].row.category = frame[j].row.category
         /\ frame[i].row.published_at.kind = "utc"
         /\ frame[j].row.published_at.kind = "utc")
            => frame[i].row.published_at.hour >= frame[j].row.published_at.hour

\* the frame is a permutation of the articles, newer first in each category
C29_PermutationNewerFirst ==
    collect_status = "returned" =>
        PermutationOf(df, high_priority_articles) /\ NewerFirst(df)

\* C29: in the output of sort_articles_by_priority every article of the
\* seven topical categories (Space among them) precedes every Miscellaneous
\* article, the output is a permutation of the input rows, and within one
\* rank the newer published_at comes first.
C29_TopicalBeforeMiscellaneous ==
    collect_status = "returned" =>
        /\ TopicalFirst(df)
        /\ PermutationOf(df, high_priority_articles)
        /\ NewerFirst(df)

\* C30: fact_check_articles and analyze_bill_impact complete without
\* raising on every frame summarize_articles returns, the 5-row frame of the
\* individual fallback with its inherited labels included.
C30_ChecksCompleteOnSummarized ==
    (Completed("summarize") /\ df_summarized # <<>>) =>
        /\ ~fact_check_articles(df_summarized).raised
        /\ ~analyze_bill_impact(df_summarized, hash_order).raised

\* the same on the frames whose labels are their positions
C30_ChecksCompleteOnPositionLabels ==
    (/\ Completed("summarize")
     /\ df_summarized # <<>>
     /\ \A i \in 1..Len(df_summarized) : df_summarized[i].index = i - 1) =>
        /\ ~fact_check_articles(df_summarized).raised
        /\ ~analyze_bill_impact(df_summarized, hash_order).raised

====
